---- MODULE Spec2Model ----
(***************************************************************************)
(* Model of the Fire TV REST client (uc_intg_firetv/client.py) and of the  *)
(* setup handler's use of it (uc_intg_firetv/driver.py).                   *)
(*                                                                         *)
(* One client object is driven by one caller at a time.  A public command  *)
(* method (send_navigation_command, send_media_command, launch_app) runs   *)
(* _send_command_with_retry around its inner _send coroutine; every await  *)
(* on the network or on asyncio.sleep is a step of the model, and the      *)
(* device's answer to each request is an input of that step.               *)
(***************************************************************************)
EXTENDS Integers, Sequences, FiniteSets, TLC

VARIABLES
    now,                \* time.time(), in seconds
    last_command_time,  \* FireTVClient._last_command_time
    session,            \* FireTVClient.session: 0 is None, n > 0 the n-th session object
    closedSessions,     \* the session objects whose .closed is true
    created,            \* number of ClientSession objects constructed so far
    pc,                 \* position of the running call
    op,                 \* the public method being run ("none" when idle)
    attempt,            \* loop variable of _send_command_with_retry (0 before the loop)
    log,                \* events of the running call, in order
    result,             \* what the running call gave its caller
    now0,               \* clock when the running call started
    lct0,               \* _last_command_time when the running call started
    calls,              \* completed calls
    ticks,              \* clock advances taken
    host,               \* FireTVClient.host
    port,               \* FireTVClient.port
    token,              \* FireTVClient.token ("None" is None)
    use_https,          \* FireTVClient._use_https
    built,              \* the call that constructed the client
    config,             \* the saved configuration the client was built for
    connectors,         \* connectors[n]: the connector of the n-th session object
    sessOps,            \* the session operations of the latest step that ran any
    request,            \* the latest request handed to the session
    tpc,                \* tpc[t]: position of task t's dispatch (concurrent callers)
    tattempt,           \* tattempt[t]: loop variable of task t's dispatch
    tsession,           \* tsession[t]: the session task t's request in flight runs on
    tcalls,             \* tcalls[t]: dispatches task t has completed
    recreateOverlap,    \* a task ran _recreate_session while another was inside it
    remote_client,      \* FireTVRemote._client is set
    remote_state,       \* FireTVRemote.attributes[STATE]
    handler,            \* the running _handle_command: position, arguments, outcome
    handled,            \* completed _handle_command calls
    remote_api,         \* FireTVRemote._api is set
    client_call,        \* the latest call of a command method of the client, with its request
    disk,               \* the configuration file (a record with None fields when absent)
    driver_config,      \* driver.config: Config._config in memory
    client,             \* driver.client: the runtime client (None before it is built)
    remote_entity,      \* driver.remote_entity (None before it is built)
    available_entities, \* api.available_entities
    entities_ready,     \* driver._entities_ready
    initialization_lock,\* driver._initialization_lock: the task holding it, or None
    device_state,       \* the state last given to api.set_device_state
    dpc,                \* dpc[k]: position of driver task k
    setup,              \* the running setup_handler call: message, locals, outcome
    flow,               \* what the setup flow in progress has achieved so far
    main_pc,            \* position of main()
    events,             \* events[k]: times driver task k has been started
    subscription        \* the latest on_subscribe_entities call

clientVars == << host, port, token, use_https, built, config >>
concVars == << tpc, tattempt, tsession, tcalls, recreateOverlap >>
remoteVars == << remote_client, remote_state, handler, handled, remote_api, client_call >>
driverVars == << disk, driver_config, client, remote_entity, available_entities,
                entities_ready, initialization_lock, device_state, dpc, setup,
                flow, main_pc, events, subscription >>
outerVars == << remoteVars, driverVars >>

vars == << now, last_command_time, session, closedSessions, created, pc, op,
           attempt, log, result, now0, lct0, calls, ticks,
           host, port, token, use_https, built, config, connectors, sessOps,
           request, tpc, tattempt, tsession, tcalls, recreateOverlap,
           remote_client, remote_state, handler, handled, remote_api, client_call,
           disk, driver_config, client, remote_entity, available_entities,
           entities_ready, initialization_lock, device_state, dpc, setup,
           flow, main_pc, events, subscription >>

(***************************************************************************)
(* Bounds of the exploration.                                              *)
(***************************************************************************)
MaxCalls == 2
MaxTicks == 2
MaxTaskCalls == 1       \* dispatches per concurrent task
MaxHandled == 2         \* commands handled by the remote entity
MaxSetupMessages == 2   \* setup messages the hub sends
MaxEvents == 1          \* connect events, and subscribe events, the hub sends

\* The concurrent callers of one client.
Tasks == {1, 2}

(***************************************************************************)
(* Program constants.                                                      *)
(***************************************************************************)
wake_timeout == 1500        \* self._wake_timeout = 25 * 60
max_retries == 2            \* default of _send_command_with_retry
WakeSleep == 2              \* asyncio.sleep(2) after a wake

\* Clock readings at which the client object may be constructed: a hub that
\* boots without a synchronised clock reads a few seconds past the epoch.
InitialClocks == {1, 2000}
\* Amounts by which the clock advances between steps.
TickSteps == {1, 1500}

(***************************************************************************)
(* What the device (or the transport) does with a request.                 *)
(***************************************************************************)
Status(s) == [kind |-> "status", status |-> s, exc |-> "", pin |-> ""]
Exc(e) == [kind |-> "exc", status |-> 0, exc |-> e, pin |-> ""]
NoAnswer == [kind |-> "none", status |-> 0, exc |-> "", pin |-> ""]

\* Answers to a command request: HTTP statuses, or the exception the
\* session.post raises.
CommandAnswers ==
    { Status(s) : s \in {200, 204, 401, 403, 500} }
    \cup { Exc(e) : e \in {"ClientConnectorError", "ServerDisconnectedError",
                           "TimeoutError", "ClientPayloadError"} }

\* Outcomes of the wake request.
WakeAnswers ==
    { Status(s) : s \in {200, 404} } \cup { Exc(e) : e \in {"TimeoutError", "ClientConnectorError"} }

Commands == {"navigation", "media", "app"}

Ev(e, a) == [ev |-> e, ans |-> a]

(***************************************************************************)
(* Session management.                                                     *)
(***************************************************************************)
SessionState(s, c, n) == [session |-> s, closed |-> c, created |-> n]

\* Variant: a closed session is taken for a usable one.
ensure_session_ignores_closed(ss) ==
    IF ss.session = 0
    THEN SessionState(ss.created + 1, ss.closed, ss.created + 1)
    ELSE ss

\* _ensure_session: construct a session when there is none or it is closed.
ensure_session(ss) ==
    IF ss.session = 0 \/ ss.session \in ss.closed
    THEN SessionState(ss.created + 1, ss.closed, ss.created + 1)
    ELSE ss

\* Variant: the old session is dropped without being closed.
recreate_session_without_close(ss) ==
    ensure_session(SessionState(0, ss.closed, ss.created))

\* _recreate_session: close the live session, drop it, construct a new one.
recreate_session(ss) ==
    LET closedNow == IF ss.session # 0 /\ ss.session \notin ss.closed
                     THEN ss.closed \cup {ss.session}
                     ELSE ss.closed
    IN ensure_session(SessionState(0, closedNow, ss.created))

\* Variant: close() returns without closing.
close_keeps_open(ss) == ss

\* close: close the session when there is a live one.
close(ss) ==
    IF ss.session # 0 /\ ss.session \notin ss.closed
    THEN SessionState(ss.session, ss.closed \cup {ss.session}, ss.created)
    ELSE ss

CurrentSessions == SessionState(session, closedSessions, created)

\* The connector _ensure_session builds for a new session: a TCPConnector
\* with an SSL context whose check_hostname is off and whose verify_mode is
\* CERT_NONE when the client uses https, a plain TCPConnector otherwise.
new_connector(https) ==
    IF https
    THEN [ssl |-> TRUE, check_hostname |-> FALSE, verify_mode |-> "CERT_NONE"]
    ELSE [ssl |-> FALSE, check_hostname |-> FALSE, verify_mode |-> "none"]

SetSessions(ss) ==
    /\ session' = ss.session
    /\ closedSessions' = ss.closed
    /\ created' = ss.created
    /\ connectors' = [ i \in 1..ss.created |->
                         IF i <= created THEN connectors[i]
                         ELSE new_connector(use_https) ]

session_op(name, ss) ==
    CASE name = "ensure" -> ensure_session(ss)
      [] name = "recreate" -> recreate_session(ss)
      [] name = "close" -> close(ss)

SOp(name, ss) == [op |-> name, before |-> ss, after |-> session_op(name, ss)]

\* A step that runs the named session operations one after the other.
SessionStep(names) ==
    LET first == SOp(names[1], CurrentSessions)
        ops == IF Len(names) = 1
               THEN << first >>
               ELSE << first, SOp(names[2], first.after) >>
    IN /\ SetSessions(ops[Len(ops)].after)
       /\ sessOps' = ops

(***************************************************************************)
(* Construction of the client.                                             *)
(***************************************************************************)
None == "None"

\* Hosts a client is constructed for.
Hosts == {"localhost", "LocalHost", "127.0.0.1", "0.0.0.0", "192.168.1.50"}

\* The saved configuration of a paired integration.
ConfigHost == "192.168.1.50"
ConfigToken == "tok-abc"

\* str.lower() on the hosts above.
lower(h) == IF h = "LocalHost" THEN "localhost" ELSE h

\* Variant: the host is compared as written.
is_loopback_case_sensitive(h) == h \in {"localhost", "127.0.0.1", "0.0.0.0"}

\* host.lower() in ['localhost', '127.0.0.1', '0.0.0.0']
is_loopback(h) == lower(h) \in {"localhost", "127.0.0.1", "0.0.0.0"}

\* The positional arguments of the constructor calls of the driver:
\* FireTVClient(host, token) in _initialize_entities, FireTVClient(host) in
\* the setup handler.
constructor_args(how, cfg) ==
    IF how = "driver" THEN << cfg.host, cfg.token >> ELSE << cfg.host >>

\* __init__(self, host, port=8080, token=None): the fields it sets.
FireTVClient(args) ==
    [host |-> args[1],
     port |-> IF Len(args) >= 2 THEN args[2] ELSE "8080",
     token |-> IF Len(args) >= 3 THEN args[3] ELSE None,
     use_https |-> ~is_loopback(args[1])]

base_url ==
    [scheme |-> IF use_https THEN "https" ELSE "http", host |-> host, port |-> port]

wake_url ==
    [scheme |-> "http", host |-> host, port |-> IF use_https THEN "8009" ELSE port]

\* Variant: the token is added whether or not the caller asks for it.
get_headers_always_token(include_token) ==
    { << "X-Api-Key", "0987654321" >>,
      << "Content-Type", "application/json" >>,
      << "User-Agent", "okhttp/4.10.0" >> }
    \cup (IF token \notin {None, ""}
          THEN { << "X-Client-Token", token >> }
          ELSE {})

\* _get_headers: the headers as a set of name/value pairs.
get_headers(include_token) ==
    { << "X-Api-Key", "0987654321" >>,
      << "Content-Type", "application/json" >>,
      << "User-Agent", "okhttp/4.10.0" >> }
    \cup (IF include_token /\ token \notin {None, ""}
          THEN { << "X-Client-Token", token >> }
          ELSE {})

wake_headers ==
    { << "User-Agent", "okhttp/4.10.0" >>,
      << "Content-Type", "text/plain; charset=utf-8" >>,
      << "Content-Length", "0" >> }

Req(k, u, h, p) == [kind |-> k, url |-> u, path |-> p, headers |-> h]
NoRequest == Req("none", [scheme |-> "", host |-> "", port |-> ""], {}, "")

command_path(c) ==
    CASE c = "navigation" -> "/v1/FireTV?action="
      [] c = "media" -> "/v1/media?action="
      [] c = "app" -> "/v1/FireTV/app/"

command_request(c) == Req(c, base_url, get_headers(TRUE), command_path(c))
wake_request == Req("wake", wake_url, wake_headers, "/apps/FireTVRemote")

\* A URL whose port is not a number is refused by the session before
\* anything is sent: the request raises InvalidURL.
PortNumbers == {"8080", "8009"}
possible_answers(req, answers) ==
    IF req.url.port \in PortNumbers THEN answers ELSE { Exc("InvalidURL") }

(***************************************************************************)
(* Idle clock.                                                             *)
(***************************************************************************)
\* Variant: the boundary reading counts as idle.
should_wake_device_inclusive(current_time, last) ==
    \/ last = 0
    \/ current_time - last >= wake_timeout

should_wake_device(current_time, last) ==
    \/ last = 0
    \/ current_time - last > wake_timeout

(***************************************************************************)
(* wake_up: what the call gives back for each outcome of the wake request. *)
(* "True" is the returned value; any other value would be an exception     *)
(* leaving wake_up.                                                        *)
(***************************************************************************)
\* Variant: the generic handler of wake_up lets the exception through.
wake_up_raises(a) ==
    IF a.kind = "status"
    THEN IF a.status \in {200, 201, 204} THEN "True" ELSE "True"
    ELSE IF a.exc = "TimeoutError" THEN "True" ELSE a.exc

wake_up(a) ==
    IF a.kind = "status"
    THEN IF a.status \in {200, 201, 204} THEN "True" ELSE "True"
    ELSE IF a.exc = "TimeoutError" THEN "True" ELSE "True"

(***************************************************************************)
(* The inner _send coroutine of a public command method: the value it      *)
(* returns, or the exception that leaves it.                               *)
(***************************************************************************)
Returned(v) == [kind |-> "return", value |-> v, status |-> 0]
Raised(e, s) == [kind |-> "raise", value |-> e, status |-> s]

send(a) ==
    IF a.kind = "exc"
    THEN Raised(a.exc, 0)
    ELSE IF a.status >= 400
         THEN Raised("ClientResponseError", a.status)      \* raise_for_status()
         ELSE Returned(IF a.status = 200 THEN "True" ELSE "False")

(***************************************************************************)
(* The try/except of one iteration of _send_command_with_retry.            *)
(***************************************************************************)
\* Variant: an authentication failure is retried like a lost connection.
retry_decision_auth_retried(s, att, maxr) ==
    IF s.kind = "return" THEN "return"
    ELSE IF s.value = "ClientResponseError"
         THEN IF s.status \in {401, 403}
              THEN IF att < maxr THEN "retry" ELSE "TokenInvalidError"
              ELSE "raise"
    ELSE IF s.value \in {"ClientConnectorError", "ServerDisconnectedError"}
         THEN IF att < maxr THEN "retry" ELSE "raise"
    ELSE "raise"

\* Variant: a connection error is raised at once.
retry_decision_no_retry(s, att, maxr) ==
    IF s.kind = "return" THEN "return"
    ELSE IF s.value = "ClientResponseError"
         THEN IF s.status \in {401, 403} THEN "TokenInvalidError" ELSE "raise"
    ELSE "raise"

\* Variant: the last attempt still asks for a retry.
retry_decision_extra_attempt(s, att, maxr) ==
    IF s.kind = "return" THEN "return"
    ELSE IF s.value = "ClientResponseError"
         THEN IF s.status \in {401, 403} THEN "TokenInvalidError" ELSE "raise"
    ELSE IF s.value \in {"ClientConnectorError", "ServerDisconnectedError"}
         THEN IF att <= maxr THEN "retry" ELSE "raise"
    ELSE "raise"

\* Variant: a rejected command is retried like a lost connection.
retry_decision_status_retried(s, att, maxr) ==
    IF s.kind = "return" THEN "return"
    ELSE IF s.value = "ClientResponseError"
         THEN IF s.status \in {401, 403} THEN "TokenInvalidError"
              ELSE IF att < maxr THEN "retry" ELSE "raise"
    ELSE IF s.value \in {"ClientConnectorError", "ServerDisconnectedError"}
         THEN IF att < maxr THEN "retry" ELSE "raise"
    ELSE "raise"

retry_decision(s, att, maxr) ==
    IF s.kind = "return" THEN "return"
    ELSE IF s.value = "ClientResponseError"
         THEN IF s.status \in {401, 403} THEN "TokenInvalidError" ELSE "raise"
    ELSE IF s.value \in {"ClientConnectorError", "ServerDisconnectedError"}
         THEN IF att < maxr THEN "retry" ELSE "raise"
    ELSE "raise"

\* for attempt in range(1, max_retries + 1)
in_loop(att, maxr) == att >= 1 /\ att <= maxr

(***************************************************************************)
(* The try/except of the public command methods around the dispatcher.     *)
(***************************************************************************)
\* Variant: the public method has no generic handler.
public_result_reraises(o) ==
    IF o.kind = "return" THEN o.value
    ELSE o.value

public_result(o) ==
    IF o.kind = "return" THEN o.value
    ELSE IF o.value = "TokenInvalidError" THEN "TokenInvalidError"
    ELSE "False"

(***************************************************************************)
(* request_pin.                                                            *)
(***************************************************************************)
PinBody(s, p) == [kind |-> "status", status |-> s, exc |-> "", pin |-> p]

\* Answers to the pin/display request: the body's pin may be empty because
\* the device renders the PIN after it has answered.
PinAnswers ==
    { PinBody(200, p) : p \in {"", "1234"} }
    \cup { Status(500) }
    \cup { Exc(e) : e \in {"TimeoutError", "ClientConnectorError"} }

\* The parameters request_pin declares besides self.
request_pin_params == << "friendly_name" >>

\* The call made by the setup handler:
\* request_pin("UC Remote", max_retries=5, retry_delay=3.5).
setup_request_pin_call ==
    [positional |-> 1, keywords |-> {"max_retries", "retry_delay"}]

\* The call a caller makes with the friendly name alone.
plain_request_pin_call == [positional |-> 1, keywords |-> {}]

PinCalls == {setup_request_pin_call, plain_request_pin_call}

\* Python's binding of a call's arguments to a function's parameters: a
\* keyword that names no parameter left over by the positional arguments
\* raises TypeError before the body runs.
call_accepted(params, call) ==
    /\ call.positional <= Len(params)
    /\ call.keywords \subseteq
           { params[i] : i \in (call.positional + 1)..Len(params) }

\* The body of request_pin: what it returns for the answer to its request.
request_pin(a) ==
    IF a.kind = "status"
    THEN IF a.status = 200 THEN "True" ELSE "False"
    ELSE "False"

(***************************************************************************)
(* verify_pin.                                                             *)
(***************************************************************************)
\* An answer whose body is JSON with the given description ("None" when the
\* body has no description); the body's field of interest travels in the
\* pin field of the answer record.
VerifyBody(s, d) == [kind |-> "status", status |-> s, exc |-> "", pin |-> d]
\* An answer whose body cannot be read as JSON: response.json() raises.
UnreadableBody(s) == [kind |-> "status", status |-> s, exc |-> "ContentTypeError", pin |-> ""]

VerifyAnswers ==
    { VerifyBody(200, "tok-new"), VerifyBody(200, None), UnreadableBody(200),
      VerifyBody(201, "tok-new"), Status(403) }
    \cup { Exc(e) : e \in {"TimeoutError", "ClientConnectorError"} }

\* Variant: every success status is taken as a verified PIN.
verify_pin_any_success(a, tok) ==
    IF a.kind = "status" /\ a.status \in 200..299 /\ a.exc = ""
    THEN [result |-> a.pin, token |-> a.pin]
    ELSE [result |-> None, token |-> tok]

\* The body of verify_pin: what it returns and the token it leaves in the
\* client, for the answer to its request and the token held before.
verify_pin(a, tok) ==
    IF a.kind = "status"
    THEN IF a.status = 200
         THEN IF a.exc = ""
              THEN [result |-> a.pin, token |-> a.pin]
              ELSE [result |-> None, token |-> tok]      \* except Exception
         ELSE [result |-> None, token |-> tok]
    ELSE [result |-> None, token |-> tok]

(***************************************************************************)
(* test_connection.                                                        *)
(***************************************************************************)
probe_max_retries == 3      \* default of test_connection, and the setup handler's value
probe_retry_delay == 3      \* retry_delay = 3.0

ProbeAnswers ==
    { Status(s) : s \in {200, 404, 500} }
    \cup { Exc(e) : e \in {"TimeoutError", "ClientConnectorError"} }

\* Variant: only HTTP 200 counts as reachable.
probe_step_only_ok(a, att, maxr) ==
    IF a.kind = "status" /\ a.status \in {200}
    THEN "return_true"
    ELSE IF att < maxr THEN "sleep" ELSE "return_false"

\* Variant: an answer with an unexpected status ends the probe.
probe_step_gives_up(a, att, maxr) ==
    IF a.kind = "status" /\ a.status \in {200, 400, 401, 403, 404, 405}
    THEN "return_true"
    ELSE IF a.kind = "status" THEN "return_false"
    ELSE IF att < maxr THEN "sleep" ELSE "return_false"

\* Variant: the pause is taken after the last attempt as well.
probe_step_sleeps_after_last(a, att, maxr) ==
    IF a.kind = "status" /\ a.status \in {200, 400, 401, 403, 404, 405}
    THEN "return_true"
    ELSE IF att <= maxr THEN "sleep" ELSE "return_false"

\* One iteration of the loop of test_connection: return True, sleep and go
\* on, or leave the loop and return False.
probe_step(a, att, maxr) ==
    IF a.kind = "status" /\ a.status \in {200, 400, 401, 403, 404, 405}
    THEN "return_true"
    ELSE IF att < maxr THEN "sleep" ELSE "return_false"

(***************************************************************************)
(* The driver (uc_intg_firetv/driver.py, config.py): its state.            *)
(***************************************************************************)
\* Config._config as a record; a missing key is None.
Cfg(h, t) == [host |-> h, token |-> t]
EmptyConfig == Cfg(None, None)

\* What the configuration file may hold when the driver starts: nothing, or
\* the host and token of an earlier pairing.  A token is whatever string the
\* device issued; one of the two here reads as a port number.
SavedTokens == {ConfigToken, "8080"}
DiskConfigs == {EmptyConfig} \cup { Cfg(ConfigHost, t) : t \in SavedTokens }

\* Config.load: the file's contents, {} when there is no file.
load(d) == d

\* Variant: whatever verify_pin returned is taken as a token.
token_obtained_always(tok) == TRUE

\* `if not token` of the setup handler (driver.py:240), negated.
token_obtained(tok) == tok \notin {None, ""}

\* Config.is_configured: bool(host and token).
is_configured(c) == c.host \notin {None, ""} /\ c.token \notin {None, ""}

\* The coroutines of the driver that run as tasks of the event loop.
DriverTasks == {"startup", "connect", "subscribe", "setup"}

\* A client object of the driver: its fields and its session.
ClientObject(args) ==
    [built |-> TRUE, fields |-> FireTVClient(args), sessions |-> SessionState(0, {}, 0)]
\* The value of a client variable that holds None.
NoClient ==
    [built |-> FALSE,
     fields |-> [host |-> None, port |-> None, token |-> None, use_https |-> FALSE],
     sessions |-> SessionState(0, {}, 0)]

\* _base_url of a client object.
client_base_url(c) ==
    [scheme |-> IF c.fields.use_https THEN "https" ELSE "http",
     host |-> c.fields.host, port |-> c.fields.port]

\* The loop of test_connection over the answers to its probes, ans[i] being
\* the answer to the probe of attempt i.
RECURSIVE probe_loop(_, _)
probe_loop(ans, att) ==
    LET d == probe_step(ans[att], att, probe_max_retries)
    IN IF d = "return_true" THEN TRUE
       ELSE IF d = "return_false" THEN FALSE
       ELSE probe_loop(ans, att + 1)

\* What test_connection of client object c can return.
test_connection_results(c) ==
    { probe_loop(ans, 1) :
        ans \in [1..probe_max_retries ->
                   possible_answers(Req("probe", client_base_url(c), {}, "/"),
                                    ProbeAnswers)] }

\* The messages the hub sends to the setup handler; host and pin are the
\* values of setup_data['host'] and input_values['pin'] (None when missing).
SetupMsg(k, h, p) == [kind |-> k, host |-> h, pin |-> p]
SetupMessages ==
    { SetupMsg("DriverSetupRequest", h, None) : h \in {ConfigHost, None} }
    \cup { SetupMsg("UserDataResponse", None, p) : p \in {"1234", None} }
    \cup { SetupMsg(k, None, None) :
             k \in {"UserConfirmationResponse", "AbortDriverSetup", "Unknown"} }

\* The running setup_handler call: its message, its local host, the client
\* it built, what it returned (or the exception that left it) and why.
SetupCall(m, h, c, o, n) == [msg |-> m, host |-> h, client |-> c, outcome |-> o, note |-> n]
NoSetupCall == SetupCall(SetupMsg("none", None, None), None, NoClient, "none", "")

\* What the setup flow in progress has achieved: the host whose device
\* answered the probe of step 1, the host for which request_pin returned
\* True, the token verify_pin returned.
Flow(r, p, t) == [reachable_host |-> r, pin_host |-> p, token |-> t]
NoFlow == Flow(None, None, None)

\* The running on_subscribe_entities call: its entity_ids, the ids in
\* api.configured_entities, and the ids whose state it pushed.
Subscription(ids, conf, p) == [entity_ids |-> ids, configured |-> conf, pushed |-> p]

\* Outcomes of the setup handler that end a setup flow.
FlowEnds == {"SetupComplete", "CONNECTION_REFUSED", "OTHER", "AUTHORIZATION_ERROR"}

\* The driver once main() has loaded the configuration, built the API and
\* created the start-up task when the integration is configured
\* (driver.py:360-370).
InitDriverVars(d) ==
    /\ disk = d
    /\ driver_config = load(d)
    /\ client = NoClient
    /\ remote_entity = None
    /\ available_entities = {}
    /\ entities_ready = FALSE
    /\ initialization_lock = None
    /\ device_state = "none"
    /\ dpc = [k \in DriverTasks |->
                IF k = "startup" /\ is_configured(load(d)) THEN "lock_wait" ELSE "idle"]
    /\ setup = NoSetupCall
    /\ flow = NoFlow
    /\ main_pc = "running"
    /\ events = [k \in DriverTasks |-> 0]
    /\ subscription = Subscription({}, {}, {})

\* The running _handle_command of the remote entity: position, arguments,
\* the client method called, what it gave, and the status returned.
Handler(p, i, c, m, r, st) ==
    [pc |-> p, cmd_id |-> i, command |-> c, called |-> m, result |-> r, status |-> st]
\* params without a 'command' key (command names are sequences of
\* characters; no name equals this one).
NoCommand == << None >>
IdleHandler == Handler("idle", "none", NoCommand, "none", "none", "none")

\* The request a command method posts: its URL path and its JSON payload
\* (<< >> is the empty dict, for which no body is sent).
Posted(m, a, d, k, p, b) ==
    [method |-> m, action |-> a, direction |-> d, key_action_type |-> k,
     path |-> p, has_body |-> b # << >>, payload |-> b]

\* A call of the client made by _execute_command: the kind of command
\* method, the verb, and the request posted.
ClientCall(k, v, r) == [called |-> k, verb |-> v, request |-> r]
NoCall == ClientCall("none", "none", Posted("none", None, None, None, "", << >>))

TypeOK ==
    /\ now \in Nat /\ last_command_time \in Nat
    /\ session \in Nat /\ created \in Nat
    /\ closedSessions \subseteq 1..created
    /\ pc \in {"idle", "wake", "sleep", "recreate", "request", "pin_request",
              "verify_request", "probe_request", "probe_sleep", "done"}
    /\ attempt \in 0..(probe_max_retries + 1)
    /\ host \in Hosts /\ use_https \in BOOLEAN
    /\ DOMAIN connectors = 1..created
    /\ calls \in 0..MaxCalls /\ ticks \in 0..MaxTicks
    /\ tpc \in [Tasks -> {"idle", "wake", "sleep", "closing", "request", "done"}]
    /\ tattempt \in [Tasks -> 0..max_retries]
    /\ tsession \in [Tasks -> 0..created]
    /\ tcalls \in [Tasks -> 0..MaxTaskCalls]
    /\ recreateOverlap \in BOOLEAN
    /\ remote_client \in BOOLEAN /\ remote_state \in {"ON", "OFF"}
    /\ handler.pc \in {"idle", "dispatch", "done"}
    /\ handler.status \in {"none", "OK", "SERVER_ERROR", "NOT_IMPLEMENTED"}
    /\ handled \in 0..MaxHandled
    /\ entities_ready \in BOOLEAN
    /\ initialization_lock \in DriverTasks \cup {None}
    /\ dpc \in [DriverTasks -> {"idle", "lock_wait", "init_probe", "init_connected",
                                "after_init", "finished", "setup_probe", "setup_pin",
                                "setup_verify", "setup_done"}]
    /\ main_pc \in {"running", "exited"}
    /\ events \in [DriverTasks -> 0..MaxSetupMessages]
    /\ client.built \in BOOLEAN /\ setup.client.built \in BOOLEAN
    /\ remote_api \in BOOLEAN
    /\ client_call.called \in {"none", "navigation", "media", "app", "direct"}
    /\ subscription.pushed \subseteq subscription.entity_ids

\* The client after construction by the call `how` for configuration cfg,
\* in a driver whose configuration file holds d.
InitClientWith(how, cfg, d) ==
    LET c == FireTVClient(constructor_args(how, cfg))
    IN /\ host = c.host
       /\ port = c.port
       /\ token = c.token
       /\ use_https = c.use_https
       /\ built = how
       /\ config = cfg
       /\ last_command_time = 0
       /\ session = 0
       /\ closedSessions = {}
       /\ created = 0
       /\ connectors = << >>
       /\ sessOps = << >>
       /\ request = NoRequest
       /\ pc = "idle"
       /\ op = "none"
       /\ attempt = 0
       /\ log = << >>
       /\ result = "none"
       /\ now0 = 0
       /\ lct0 = 0
       /\ calls = 0
       /\ ticks = 0
       /\ tpc = [t \in Tasks |-> "idle"]
       /\ tattempt = [t \in Tasks |-> 0]
       /\ tsession = [t \in Tasks |-> 0]
       /\ tcalls = [t \in Tasks |-> 0]
       /\ recreateOverlap = FALSE
       /\ remote_client = FALSE
       /\ remote_state = "ON"
       /\ handler = IdleHandler
       /\ handled = 0
       /\ remote_api = FALSE
       /\ client_call = NoCall
       /\ InitDriverVars(d)

InitClient(how, cfg) == InitClientWith(how, cfg, EmptyConfig)

Init ==
    /\ now \in InitialClocks
    /\ \E how \in {"driver", "setup"} :
           InitClient(how, [host |-> ConfigHost, token |-> ConfigToken])

(***************************************************************************)
(* A public command method is called.  _send_command_with_retry consults   *)
(* the idle clock and either starts wake_up (whose first step ensures a    *)
(* session and posts the wake request) or enters the loop and posts the    *)
(* command request of attempt 1.                                           *)
(***************************************************************************)
Dispatch(c) ==
    /\ pc = "idle"
    /\ calls < MaxCalls
    /\ op' = c
    /\ now0' = now
    /\ lct0' = last_command_time
    /\ result' = "none"
    /\ SessionStep(<< "ensure" >>)
    /\ IF should_wake_device(now, last_command_time)
       THEN /\ pc' = "wake"
            /\ attempt' = 0
            /\ log' = << Ev("wake", NoAnswer) >>
            /\ request' = wake_request
       ELSE /\ pc' = "request"
            /\ attempt' = 1
            /\ log' = << Ev("request", NoAnswer) >>
            /\ request' = command_request(c)
    /\ UNCHANGED << concVars, outerVars, now, last_command_time, calls, ticks, clientVars >>

(***************************************************************************)
(* The wake request ends with outcome a.  When wake_up returns, the        *)
(* dispatcher goes on to asyncio.sleep(2); an exception leaving wake_up    *)
(* would leave the dispatcher too and reach the public method's handler.   *)
(***************************************************************************)
WakeDone(a) ==
    /\ pc = "wake"
    /\ a \in possible_answers(request, WakeAnswers)
    /\ LET r == wake_up(a)
       IN /\ log' = Append(log, Ev("wake_done", a))
          /\ IF r \in {"True", "False"}
             THEN /\ pc' = "sleep"
                  /\ UNCHANGED result
             ELSE /\ pc' = "done"
                  /\ result' = public_result(Raised(r, 0))
    /\ UNCHANGED << concVars, outerVars, now, last_command_time, session, closedSessions, created,
                    connectors, sessOps, request, clientVars,
                    op, attempt, now0, lct0, calls, ticks >>

\* asyncio.sleep(2) completes.
SleepDone ==
    /\ pc = "sleep"
    /\ now' = now + WakeSleep
    /\ pc' = "recreate"
    /\ log' = Append(log, Ev("sleep", NoAnswer))
    /\ UNCHANGED << concVars, outerVars, last_command_time, session, closedSessions, created,
                    connectors, sessOps, request, clientVars, op,
                    attempt, result, now0, lct0, calls, ticks >>

(***************************************************************************)
(* _recreate_session, then the next iteration of the loop: the command     *)
(* request of the next attempt is posted (its _send ensures a session      *)
(* first), or the loop is exhausted and the dispatcher falls off its end,  *)
(* returning None.                                                         *)
(***************************************************************************)
Recreate ==
    /\ pc = "recreate"
    /\ attempt' = attempt + 1
    /\ IF in_loop(attempt + 1, max_retries)
       THEN /\ pc' = "request"
            /\ SessionStep(<< "recreate", "ensure" >>)
            /\ log' = log \o << Ev("recreate", NoAnswer), Ev("request", NoAnswer) >>
            /\ request' = command_request(op)
            /\ UNCHANGED result
       ELSE /\ pc' = "done"
            /\ SessionStep(<< "recreate" >>)
            /\ log' = Append(log, Ev("recreate", NoAnswer))
            /\ result' = public_result(Returned("None"))
            /\ UNCHANGED request
    /\ UNCHANGED << concVars, outerVars, now, last_command_time, op, now0, lct0, calls, ticks, clientVars >>

(***************************************************************************)
(* The command request of the current attempt ends with answer a.          *)
(***************************************************************************)
CommandDone(a) ==
    /\ pc = "request"
    /\ a \in possible_answers(request, CommandAnswers)
    /\ LET s == send(a)
           d == retry_decision(s, attempt, max_retries)
       IN CASE d = "return" ->
                 /\ last_command_time' = now               \* _update_command_time()
                 /\ pc' = "done"
                 /\ result' = public_result(s)
                 /\ log' = Append(log, Ev("response", a))
                 /\ UNCHANGED << session, closedSessions, created, connectors,
                                 sessOps, request >>
            [] d = "TokenInvalidError" ->
                 /\ pc' = "done"
                 /\ result' = public_result(Raised("TokenInvalidError", s.status))
                 /\ log' = Append(log, Ev("response", a))
                 /\ UNCHANGED << last_command_time, session, closedSessions, created,
                                 connectors, sessOps, request >>
            [] d = "raise" ->
                 /\ pc' = "done"
                 /\ result' = public_result(s)
                 /\ log' = Append(log, Ev("response", a))
                 /\ UNCHANGED << last_command_time, session, closedSessions, created,
                                 connectors, sessOps, request >>
            [] d = "retry" ->
                 /\ pc' = "wake"
                 /\ log' = log \o << Ev("response", a), Ev("wake", NoAnswer) >>
                 /\ SessionStep(<< "ensure" >>)
                 /\ request' = wake_request
                 /\ UNCHANGED << last_command_time, result >>
    /\ UNCHANGED << concVars, outerVars, now, op, attempt, now0, lct0, calls, ticks, clientVars >>

(***************************************************************************)
(* request_pin is called.  The setup handler's call passes max_retries and *)
(* retry_delay; a call the signature does not accept raises TypeError and  *)
(* no request is sent.  An accepted call ensures a session and posts the   *)
(* pin/display request.                                                    *)
(***************************************************************************)
RequestPin(call) ==
    /\ pc = "idle"
    /\ calls < MaxCalls
    /\ op' = IF call = setup_request_pin_call THEN "setup_request_pin" ELSE "request_pin"
    /\ now0' = now
    /\ lct0' = last_command_time
    /\ attempt' = 0
    /\ IF call_accepted(request_pin_params, call)
       THEN /\ pc' = "pin_request"
            /\ log' = << Ev("pin_request", NoAnswer) >>
            /\ result' = "none"
            /\ SessionStep(<< "ensure" >>)
            /\ request' = Req("pin_display", base_url, get_headers(FALSE),
                              "/v1/FireTV/pin/display")
       ELSE /\ pc' = "done"
            /\ log' = << >>
            /\ result' = "TypeError"
            /\ UNCHANGED << session, closedSessions, created, connectors,
                            sessOps, request >>
    /\ UNCHANGED << concVars, outerVars, now, last_command_time, calls, ticks, clientVars >>

\* The pin/display request ends with answer a; request_pin returns.
PinDone(a) ==
    /\ pc = "pin_request"
    /\ a \in possible_answers(request, PinAnswers)
    /\ pc' = "done"
    /\ result' = request_pin(a)
    /\ log' = Append(log, Ev("pin_response", a))
    /\ UNCHANGED << concVars, outerVars, now, last_command_time, session, closedSessions, created,
                    connectors, sessOps, request, clientVars,
                    op, attempt, now0, lct0, calls, ticks >>

(***************************************************************************)
(* verify_pin is called: it ensures a session and posts the pin/verify     *)
(* request.                                                                *)
(***************************************************************************)
VerifyPin ==
    /\ pc = "idle"
    /\ calls < MaxCalls
    /\ op' = "verify_pin"
    /\ pc' = "verify_request"
    /\ now0' = now
    /\ lct0' = last_command_time
    /\ attempt' = 0
    /\ result' = "none"
    /\ log' = << Ev("verify_request", NoAnswer) >>
    /\ SessionStep(<< "ensure" >>)
    /\ request' = Req("pin_verify", base_url, get_headers(FALSE), "/v1/FireTV/pin/verify")
    /\ UNCHANGED << concVars, outerVars, now, last_command_time, calls, ticks, clientVars >>

\* The pin/verify request ends with answer a; verify_pin returns.
VerifyDone(a) ==
    /\ pc = "verify_request"
    /\ a \in possible_answers(request, VerifyAnswers)
    /\ LET v == verify_pin(a, token)
       IN /\ result' = v.result
          /\ token' = v.token
    /\ pc' = "done"
    /\ log' = Append(log, Ev("verify_response", a))
    /\ UNCHANGED << concVars, outerVars, now, last_command_time, session, closedSessions, created,
                    connectors, sessOps, request, host, port, use_https, built,
                    config, op, attempt, now0, lct0, calls, ticks >>

(***************************************************************************)
(* test_connection is called: it ensures a session once and sends the      *)
(* probe of attempt 1.                                                     *)
(***************************************************************************)
TestConnection ==
    /\ pc = "idle"
    /\ calls < MaxCalls
    /\ op' = "test_connection"
    /\ pc' = "probe_request"
    /\ now0' = now
    /\ lct0' = last_command_time
    /\ attempt' = 1
    /\ result' = "none"
    /\ log' = << Ev("probe_request", NoAnswer) >>
    /\ SessionStep(<< "ensure" >>)
    /\ request' = Req("probe", base_url, {}, "/")
    /\ UNCHANGED << concVars, outerVars, now, last_command_time, calls, ticks, clientVars >>

\* The probe of the current attempt ends with answer a.
ProbeDone(a) ==
    /\ pc = "probe_request"
    /\ a \in possible_answers(request, ProbeAnswers)
    /\ LET d == probe_step(a, attempt, probe_max_retries)
       IN CASE d = "return_true" -> pc' = "done" /\ result' = "True"
            [] d = "return_false" -> pc' = "done" /\ result' = "False"
            [] d = "sleep" -> pc' = "probe_sleep" /\ UNCHANGED result
    /\ log' = Append(log, Ev("probe_response", a))
    /\ UNCHANGED << concVars, outerVars, now, last_command_time, session, closedSessions, created,
                    connectors, sessOps, request, clientVars,
                    op, attempt, now0, lct0, calls, ticks >>

\* asyncio.sleep(retry_delay) completes and the next probe is sent.
ProbeSleepDone ==
    /\ pc = "probe_sleep"
    /\ now' = now + probe_retry_delay
    /\ attempt' = attempt + 1
    /\ pc' = "probe_request"
    /\ log' = log \o << Ev("probe_sleep", NoAnswer), Ev("probe_request", NoAnswer) >>
    /\ request' = Req("probe", base_url, {}, "/")
    /\ UNCHANGED << concVars, outerVars, last_command_time, session, closedSessions, created,
                    connectors, sessOps, clientVars, op, result, now0, lct0,
                    calls, ticks >>

\* close() is called on the idle client.
Close ==
    /\ pc = "idle"
    /\ SessionStep(<< "close" >>)
    /\ UNCHANGED << concVars, outerVars, now, last_command_time, request, clientVars, pc, op, attempt,
                    log, result, now0, lct0, calls, ticks >>

\* The caller takes the result; the client is idle again.
Return ==
    /\ pc = "done"
    /\ pc' = "idle"
    /\ op' = "none"
    /\ attempt' = 0
    /\ log' = << >>
    /\ result' = "none"
    /\ now0' = 0
    /\ lct0' = 0
    /\ calls' = calls + 1
    /\ UNCHANGED << concVars, outerVars, now, last_command_time, session, closedSessions, created,
                    connectors, sessOps, request, clientVars, ticks >>

\* Time passes while the client is idle or a command request is in flight.
Tick(d) ==
    /\ pc \in {"idle", "request"}
    /\ ticks < MaxTicks
    /\ now' = now + d
    /\ ticks' = ticks + 1
    /\ UNCHANGED << concVars, outerVars, last_command_time, session, closedSessions, created,
                    connectors, sessOps, request, clientVars, pc, op,
                    attempt, log, result, now0, lct0, calls >>

Next ==
    \/ \E c \in Commands : Dispatch(c)
    \/ \E a \in WakeAnswers \cup {Exc("InvalidURL")} : WakeDone(a)
    \/ SleepDone
    \/ Recreate
    \/ \E a \in CommandAnswers \cup {Exc("InvalidURL")} : CommandDone(a)
    \/ \E call \in PinCalls : RequestPin(call)
    \/ \E a \in PinAnswers \cup {Exc("InvalidURL")} : PinDone(a)
    \/ VerifyPin
    \/ \E a \in VerifyAnswers \cup {Exc("InvalidURL")} : VerifyDone(a)
    \/ TestConnection
    \/ \E a \in ProbeAnswers \cup {Exc("InvalidURL")} : ProbeDone(a)
    \/ ProbeSleepDone
    \/ Return
    \/ \E d \in TickSteps : Tick(d)

Spec == Init /\ [][Next]_vars

(***************************************************************************)
(* The client over its lifetime, for every host and both constructor       *)
(* calls: the same calls as above, and close(), with the clock advancing   *)
(* only by the pauses of the calls.                                        *)
(***************************************************************************)
InitLifetime ==
    /\ now = 2000
    /\ \E how \in {"driver", "setup"}, h \in Hosts :
           InitClient(how, [host |-> h, token |-> ConfigToken])

NextLifetime ==
    \/ \E c \in Commands : Dispatch(c)
    \/ \E a \in WakeAnswers \cup {Exc("InvalidURL")} : WakeDone(a)
    \/ SleepDone
    \/ Recreate
    \/ \E a \in CommandAnswers \cup {Exc("InvalidURL")} : CommandDone(a)
    \/ VerifyPin
    \/ \E a \in VerifyAnswers \cup {Exc("InvalidURL")} : VerifyDone(a)
    \/ Close
    \/ Return

SpecLifetime == InitLifetime /\ [][NextLifetime]_vars

(***************************************************************************)
(* Concurrent callers.  Several tasks run public command methods on the    *)
(* same client; the client has no lock.  A task is suspended at each       *)
(* request it awaits, at asyncio.sleep, and at `await self.session.close()`*)
(* inside _recreate_session, where the session is already marked closed    *)
(* while the connector finishes closing; the code between two of these     *)
(* points runs as one step.                                                *)
(***************************************************************************)
seqVars == << pc, op, attempt, log, result, now0, lct0, calls, ticks, sessOps,
              request >>

OthersInRecreate(t) == \E u \in Tasks \ {t} : tpc[u] = "closing"

\* The command request of a task is posted: _send ensures a session first.
\* ss is the session state the step has reached so far.
PostFrom(t, ss, kind, att) ==
    LET e == ensure_session(ss)
    IN /\ SetSessions(e)
       /\ tpc' = [tpc EXCEPT ![t] = kind]
       /\ tattempt' = [tattempt EXCEPT ![t] = att]
       /\ tsession' = [tsession EXCEPT ![t] = e.session]

\* Task t calls a public command method.
TaskDispatch(t) ==
    /\ tpc[t] = "idle"
    /\ tcalls[t] < MaxTaskCalls
    /\ IF should_wake_device(now, last_command_time)
       THEN PostFrom(t, CurrentSessions, "wake", 0)
       ELSE PostFrom(t, CurrentSessions, "request", 1)
    /\ UNCHANGED << now, last_command_time, clientVars, seqVars, outerVars, tcalls,
                    recreateOverlap >>

\* Task t's wake request ends; the task goes to sleep.
TaskWakeDone(t, a) ==
    /\ tpc[t] = "wake"
    /\ wake_up(a) = "True"
    /\ tpc' = [tpc EXCEPT ![t] = "sleep"]
    /\ tsession' = [tsession EXCEPT ![t] = 0]
    /\ UNCHANGED << now, last_command_time, session, closedSessions, created,
                    connectors, clientVars, seqVars, outerVars, tattempt, tcalls,
                    recreateOverlap >>

(***************************************************************************)
(* Task t's sleep ends and it enters _recreate_session.  With a live       *)
(* session it closes it: the session is marked closed at once, and the     *)
(* await either suspends the task while the connector closes its           *)
(* connections or completes without yielding, depending on the connector.  *)
(* Where the task is not suspended it goes straight on: drops the session, *)
(* ensures a new one and posts the command request of the next attempt.    *)
(***************************************************************************)
TaskRecreate(t) ==
    /\ tpc[t] = "sleep"
    /\ recreateOverlap' = (recreateOverlap \/ OthersInRecreate(t))
    /\ IF session # 0 /\ session \notin closedSessions
       THEN \/ /\ closedSessions' = closedSessions \cup {session}
               /\ tpc' = [tpc EXCEPT ![t] = "closing"]
               /\ UNCHANGED << session, created, connectors, tattempt,
                               tsession >>
            \/ PostFrom(t, SessionState(0, closedSessions \cup {session},
                                        created),
                        "request", tattempt[t] + 1)
       ELSE PostFrom(t, SessionState(0, closedSessions, created), "request",
                     tattempt[t] + 1)
    /\ UNCHANGED << now, last_command_time, clientVars, seqVars, outerVars, tcalls >>

\* `await self.session.close()` returns to task t: self.session = None,
\* _ensure_session, and the command request of the next attempt.
TaskCloseDone(t) ==
    /\ tpc[t] = "closing"
    /\ recreateOverlap' = (recreateOverlap \/ OthersInRecreate(t))
    /\ PostFrom(t, SessionState(0, closedSessions, created), "request",
                tattempt[t] + 1)
    /\ UNCHANGED << now, last_command_time, clientVars, seqVars, outerVars, tcalls >>

\* Answers to a request whose session was closed under it: the connection
\* is gone.
ClosedSessionAnswers == { Exc("ServerDisconnectedError"), Exc("ClientPayloadError") }

TaskAnswers(t) ==
    IF base_url.port \notin PortNumbers THEN { Exc("InvalidURL") }
    ELSE IF tsession[t] \in closedSessions THEN ClosedSessionAnswers
    ELSE CommandAnswers

\* Task t's command request ends with answer a.
TaskCommandDone(t, a) ==
    /\ tpc[t] = "request"
    /\ a \in TaskAnswers(t)
    /\ LET d == retry_decision(send(a), tattempt[t], max_retries)
       IN CASE d = "return" ->
                 /\ last_command_time' = now
                 /\ tpc' = [tpc EXCEPT ![t] = "done"]
                 /\ tsession' = [tsession EXCEPT ![t] = 0]
                 /\ UNCHANGED << session, closedSessions, created, connectors,
                                 tattempt >>
            [] d \in {"TokenInvalidError", "raise"} ->
                 /\ tpc' = [tpc EXCEPT ![t] = "done"]
                 /\ tsession' = [tsession EXCEPT ![t] = 0]
                 /\ UNCHANGED << last_command_time, session, closedSessions,
                                 created, connectors, tattempt >>
            [] d = "retry" ->
                 /\ PostFrom(t, CurrentSessions, "wake", tattempt[t])
                 /\ UNCHANGED last_command_time
    /\ UNCHANGED << now, clientVars, seqVars, outerVars, tcalls, recreateOverlap >>

\* Task t's call returns to its caller.
TaskReturn(t) ==
    /\ tpc[t] = "done"
    /\ tpc' = [tpc EXCEPT ![t] = "idle"]
    /\ tattempt' = [tattempt EXCEPT ![t] = 0]
    /\ tcalls' = [tcalls EXCEPT ![t] = tcalls[t] + 1]
    /\ UNCHANGED << now, last_command_time, session, closedSessions, created,
                    connectors, clientVars, seqVars, outerVars, tsession, recreateOverlap >>

InitConcurrent ==
    /\ now = 2000
    /\ \E how \in {"driver", "setup"} :
           InitClient(how, [host |-> ConfigHost, token |-> ConfigToken])

NextConcurrent ==
    \E t \in Tasks :
        \/ TaskDispatch(t)
        \/ \E a \in WakeAnswers : TaskWakeDone(t, a)
        \/ TaskRecreate(t)
        \/ TaskCloseDone(t)
        \/ \E a \in CommandAnswers \cup ClosedSessionAnswers \cup {Exc("InvalidURL")} :
               TaskCommandDone(t, a)
        \/ TaskReturn(t)

SpecConcurrent == InitConcurrent /\ [][NextConcurrent]_vars

(***************************************************************************)
(* The remote entity (uc_intg_firetv/remote.py): its command vocabulary    *)
(* and its command handler on top of the client's verbs.  The strings the  *)
(* entity computes with (command names, application names) are sequences   *)
(* of characters.                                                          *)
(***************************************************************************)
\* What a public command method gives its caller on its last attempt, over
\* all answers of the device.
dispatch_results ==
    { LET d == retry_decision(send(a), max_retries, max_retries)
      IN IF d = "TokenInvalidError"
         THEN public_result(Raised("TokenInvalidError", a.status))
         ELSE public_result(send(a))
      : a \in CommandAnswers }

\* The letters, lower case and upper case.
Letters ==
    [ lower |-> << "a", "b", "c", "d", "e", "f", "g", "h", "i", "j", "k", "l", "m", "n", "o", "p", "q", "r", "s", "t", "u", "v", "w", "x", "y", "z" >>,
      upper |-> << "A", "B", "C", "D", "E", "F", "G", "H", "I", "J", "K", "L", "M", "N", "O", "P", "Q", "R", "S", "T", "U", "V", "W", "X", "Y", "Z" >> ]

\* str.upper() and str.lower(): letters change case, other characters stay.
str_upper(s) ==
    [i \in 1..Len(s) |->
        IF \E j \in 1..26 : Letters.lower[j] = s[i]
        THEN Letters.upper[CHOOSE j \in 1..26 : Letters.lower[j] = s[i]]
        ELSE s[i]]
str_lower(s) ==
    [i \in 1..Len(s) |->
        IF \E j \in 1..26 : Letters.upper[j] = s[i]
        THEN Letters.lower[CHOOSE j \in 1..26 : Letters.upper[j] = s[i]]
        ELSE s[i]]

\* str.replace(old, new): every occurrence of old, from the left.
RECURSIVE replace(_, _, _)
replace(s, old, new) ==
    IF Len(s) < Len(old) \/ s = << >> THEN s
    ELSE IF SubSeq(s, 1, Len(old)) = old
         THEN new \o replace(SubSeq(s, Len(old) + 1, Len(s)), old, new)
         ELSE << s[1] >> \o replace(Tail(s), old, new)

\* The application table (apps.py): id, name, package, category.
App(i, n, p, c) == [id |-> i, name |-> n, package |-> p, category |-> c]
FIRE_TV_APPS ==
    << App("netflix", << "N", "e", "t", "f", "l", "i", "x" >>,
           "com.netflix.ninja", "streaming"),
       App("prime_video", << "P", "r", "i", "m", "e", " ", "V", "i", "d", "e", "o" >>,
           "com.amazon.cloud9", "streaming"),
       App("youtube", << "Y", "o", "u", "T", "u", "b", "e" >>,
           "com.amazon.firetv.youtube", "streaming"),
       App("disney_plus", << "D", "i", "s", "n", "e", "y", "+" >>,
           "com.disney.disneyplus", "streaming"),
       App("hulu", << "H", "u", "l", "u" >>,
           "com.hulu.plus", "streaming"),
       App("apple_tv", << "A", "p", "p", "l", "e", " ", "T", "V", "+" >>,
           "com.apple.atve.amazon.appletv", "streaming"),
       App("max", << "M", "a", "x" >>,
           "com.wbd.stream", "streaming"),
       App("paramount_plus", << "P", "a", "r", "a", "m", "o", "u", "n", "t", "+" >>,
           "com.cbs.ott", "streaming"),
       App("peacock", << "P", "e", "a", "c", "o", "c", "k" >>,
           "com.peacocktv.peacockandroid", "streaming"),
       App("bbc_iplayer", << "B", "B", "C", " ", "i", "P", "l", "a", "y", "e", "r" >>,
           "uk.co.bbc.iplayer", "streaming"),
       App("itv", << "I", "T", "V", " ", "H", "u", "b" >>,
           "air.ITVMobilePlayer", "streaming"),
       App("channel_4", << "C", "h", "a", "n", "n", "e", "l", " ", "4" >>,
           "com.channel4.ondemand", "streaming"),
       App("demand_5", << "M", "y", "5" >>,
           "com.mobileiq.demand5", "streaming"),
       App("now_tv", << "N", "O", "W", " ", "T", "V" >>,
           "com.bskyb.nowtv.beta", "streaming"),
       App("sky_news", << "S", "k", "y", " ", "N", "e", "w", "s" >>,
           "com.onemainstream.skynews.android", "news"),
       App("amazon_music", << "A", "m", "a", "z", "o", "n", " ", "M", "u", "s", "i", "c" >>,
           "com.amazon.bueller.music", "music"),
       App("spotify", << "S", "p", "o", "t", "i", "f", "y" >>,
           "com.spotify.tv.android", "music"),
       App("pandora", << "P", "a", "n", "d", "o", "r", "a" >>,
           "com.pandora.android.gtv", "music"),
       App("tidal", << "T", "I", "D", "A", "L" >>,
           "com.aspiro.tidal", "music"),
       App("pluto_tv", << "P", "l", "u", "t", "o", " ", "T", "V" >>,
           "tv.pluto.android", "live_tv"),
       App("espn", << "E", "S", "P", "N" >>,
           "com.espn.score_center", "sports"),
       App("nfl", << "N", "F", "L" >>,
           "com.nfl.mobile.android.tv", "sports"),
       App("plex", << "P", "l", "e", "x" >>,
           "com.plexapp.android", "utility"),
       App("kodi", << "K", "o", "d", "i" >>,
           "org.xbmc.kodi", "utility"),
       App("vlc", << "V", "L", "C" >>,
           "org.videolan.vlc", "utility"),
       App("browser", << "S", "i", "l", "k", " ", "B", "r", "o", "w", "s", "e", "r" >>,
           "com.amazon.cloud9.silkbrowser", "utility"),
       App("settings", << "S", "e", "t", "t", "i", "n", "g", "s" >>,
           "com.amazon.tv.settings", "system") >>

\* The command names written out in remote.py (and the prefix 'LAUNCH_').
cmd ==
    [ DPAD_UP |-> << "D", "P", "A", "D", "_", "U", "P" >>,
      DPAD_DOWN |-> << "D", "P", "A", "D", "_", "D", "O", "W", "N" >>,
      DPAD_LEFT |-> << "D", "P", "A", "D", "_", "L", "E", "F", "T" >>,
      DPAD_RIGHT |-> << "D", "P", "A", "D", "_", "R", "I", "G", "H", "T" >>,
      SELECT |-> << "S", "E", "L", "E", "C", "T" >>,
      HOME |-> << "H", "O", "M", "E" >>,
      BACK |-> << "B", "A", "C", "K" >>,
      MENU |-> << "M", "E", "N", "U" >>,
      PLAY_PAUSE |-> << "P", "L", "A", "Y", "_", "P", "A", "U", "S", "E" >>,
      FAST_FORWARD |-> << "F", "A", "S", "T", "_", "F", "O", "R", "W", "A", "R", "D" >>,
      REWIND |-> << "R", "E", "W", "I", "N", "D" >>,
      LAUNCH_NETFLIX |-> << "L", "A", "U", "N", "C", "H", "_", "N", "E", "T", "F", "L", "I", "X" >>,
      LAUNCH_PRIME_VIDEO |-> << "L", "A", "U", "N", "C", "H", "_", "P", "R", "I", "M", "E", "_", "V", "I", "D", "E", "O" >>,
      LAUNCH_YOUTUBE |-> << "L", "A", "U", "N", "C", "H", "_", "Y", "O", "U", "T", "U", "B", "E" >>,
      LAUNCH_DISNEY_PLUS |-> << "L", "A", "U", "N", "C", "H", "_", "D", "I", "S", "N", "E", "Y", "_", "P", "L", "U", "S" >>,
      LAUNCH_ |-> << "L", "A", "U", "N", "C", "H", "_" >> ]

\* app_data['name'].upper().replace(' ', '_').replace('+', 'PLUS')
command_name(name) ==
    replace(replace(str_upper(name), << " " >>, << "_" >>), << "+" >>, << "P", "L", "U", "S" >>)

\* simple_commands, as _build_simple_commands lists them: the fixed
\* commands, then one LAUNCH_ command per application.
simple_commands ==
    { cmd.DPAD_UP, cmd.DPAD_DOWN, cmd.DPAD_LEFT, cmd.DPAD_RIGHT, cmd.SELECT,
      cmd.HOME, cmd.BACK, cmd.MENU, cmd.PLAY_PAUSE, cmd.FAST_FORWARD, cmd.REWIND }
    \cup { cmd.LAUNCH_ \o command_name(FIRE_TV_APPS[i].name) :
             i \in 1..Len(FIRE_TV_APPS) }

\* _create_button_mapping: the commands of the short_press and long_press
\* entries, from the (short, long) pair of each button; NoCommand is None.
button_mapping_commands ==
    LET button_configs ==
          << << cmd.DPAD_UP, NoCommand >>, << cmd.DPAD_DOWN, NoCommand >>,
             << cmd.DPAD_LEFT, NoCommand >>, << cmd.DPAD_RIGHT, NoCommand >>,
             << cmd.SELECT, NoCommand >>, << cmd.BACK, NoCommand >>,
             << cmd.HOME, cmd.MENU >>, << cmd.PLAY_PAUSE, NoCommand >>,
             << cmd.LAUNCH_NETFLIX, NoCommand >>, << cmd.LAUNCH_PRIME_VIDEO, NoCommand >>,
             << cmd.LAUNCH_YOUTUBE, NoCommand >>, << cmd.LAUNCH_DISNEY_PLUS, NoCommand >> >>
    IN { button_configs[i][j] : i \in 1..Len(button_configs), j \in 1..2 }
           \ { NoCommand }

\* The commands of the applications an app page lays out: those of the
\* given categories, in table order, as many as the grid takes.
page_app_commands(categories, limit) ==
    LET s == SelectSeq(FIRE_TV_APPS, LAMBDA a : a.category \in categories)
        n == IF Len(s) < limit THEN Len(s) ELSE limit
    IN { cmd.LAUNCH_ \o command_name(s[i].name) : i \in 1..n }

\* The commands of the items of the four UI pages.
ui_page_commands ==
    { cmd.DPAD_UP, cmd.DPAD_LEFT, cmd.SELECT, cmd.DPAD_RIGHT, cmd.DPAD_DOWN, cmd.HOME, cmd.BACK, cmd.MENU,
      cmd.REWIND, cmd.PLAY_PAUSE, cmd.FAST_FORWARD }
    \cup page_app_commands({"streaming"}, 24)
    \cup page_app_commands({"music"}, 20) \cup { cmd.REWIND, cmd.PLAY_PAUSE, cmd.FAST_FORWARD }
    \cup page_app_commands({"utility", "system", "news", "sports", "live_tv"}, 24)

\* cmd_id values the hub sends, and one the entity does not know.
CmdIds == {"send_cmd", "on", "off", "toggle", "volume"}
\* params['command'] values: the entity's vocabulary, names outside it, and
\* NoCommand for params without a command.
RemoteCommands ==
    simple_commands \cup button_mapping_commands \cup ui_page_commands
    \cup { << "h", "o", "m", "e" >>,
           << "l", "a", "u", "n", "c", "h", "_", "n", "e", "t", "f", "l", "i", "x" >>,
           << "L", "A", "U", "N", "C", "H", "_", "N", "O", "S", "U", "C", "H", "A", "P", "P" >>,
           << "V", "O", "L", "U", "M", "E", "_", "U", "P" >>,
           NoCommand }

\* The navigation verbs of the client (client.py:381-421).
NavigationVerbs ==
    {"dpad_up", "dpad_down", "dpad_left", "dpad_right", "select", "home", "back",
     "menu", "epg", "volume_up", "volume_down", "mute", "power", "sleep"}

send_navigation_command(action) ==
    Posted("send_navigation_command", action, None, None,
           command_path("navigation") \o action, << >>)

\* Variant: the payload is built whenever a direction is given.
media_payload_for_any_action(action, direction, key_action_type) ==
    IF direction \notin {None, ""}
    THEN [direction |-> direction, keyAction |-> [keyActionType |-> key_action_type]]
    ELSE << >>

\* The payload of send_media_command.
media_payload(action, direction, key_action_type) ==
    IF action = "scan" /\ direction \notin {None, ""}
    THEN [direction |-> direction, keyAction |-> [keyActionType |-> key_action_type]]
    ELSE << >>

send_media_command(action, direction, key_action_type) ==
    Posted("send_media_command", action, direction, key_action_type,
           command_path("media") \o action,
           media_payload(action, direction, key_action_type))

launch_app(package_name) ==
    Posted("launch_app", package_name, None, None,
           command_path("app") \o package_name, << >>)

\* The verb wrappers.
verb_request(v) ==
    CASE v = "dpad_up" -> send_navigation_command("dpad_up")
      [] v = "dpad_down" -> send_navigation_command("dpad_down")
      [] v = "dpad_left" -> send_navigation_command("dpad_left")
      [] v = "dpad_right" -> send_navigation_command("dpad_right")
      [] v = "select" -> send_navigation_command("select")
      [] v = "home" -> send_navigation_command("home")
      [] v = "back" -> send_navigation_command("back")
      [] v = "menu" -> send_navigation_command("menu")
      [] v = "epg" -> send_navigation_command("epg")
      [] v = "volume_up" -> send_navigation_command("volume_up")
      [] v = "volume_down" -> send_navigation_command("volume_down")
      [] v = "mute" -> send_navigation_command("mute")
      [] v = "power" -> send_navigation_command("power")
      [] v = "sleep" -> send_navigation_command("sleep")
      [] v = "play_pause" -> send_media_command("play", None, "keyDown")
      [] v = "pause" -> send_media_command("pause", None, "keyDown")
      [] v = "fast_forward" -> send_media_command("scan", "forward", "keyDown")
      [] v = "rewind" -> send_media_command("scan", "back", "keyDown")

\* The keys of the nav_commands dict of _execute_command and the verb each
\* one is bound to.
nav_commands ==
    << "d", "p", "a", "d", "_", "u", "p" >> :> "dpad_up" @@
    << "d", "p", "a", "d", "_", "d", "o", "w", "n" >> :> "dpad_down" @@
    << "d", "p", "a", "d", "_", "l", "e", "f", "t" >> :> "dpad_left" @@
    << "d", "p", "a", "d", "_", "r", "i", "g", "h", "t" >> :> "dpad_right" @@
    << "s", "e", "l", "e", "c", "t" >> :> "select" @@
    << "h", "o", "m", "e" >> :> "home" @@
    << "b", "a", "c", "k" >> :> "back" @@
    << "m", "e", "n", "u" >> :> "menu"

\* The package of the first application whose command name is what is left
\* of the command once 'cmd.LAUNCH_' is removed; None when there is none.
app_package(c) ==
    LET m == { i \in 1..Len(FIRE_TV_APPS) :
                 command_name(FIRE_TV_APPS[i].name) = replace(c, cmd.LAUNCH_, << >>) }
    IN IF m = {} THEN None
       ELSE FIRE_TV_APPS[CHOOSE i \in m : \A j \in m : i <= j].package

\* _execute_command: the client call the command name leads to, NoCall
\* when the name leads to no call (a warning is logged).
execute_command(c) ==
    IF str_lower(c) \in DOMAIN nav_commands
    THEN ClientCall("navigation", nav_commands[str_lower(c)],
                    verb_request(nav_commands[str_lower(c)]))
    ELSE IF str_lower(c) = << "p", "l", "a", "y", "_", "p", "a", "u", "s", "e" >>
    THEN ClientCall("media", "play_pause", verb_request("play_pause"))
    ELSE IF str_lower(c) = << "f", "a", "s", "t", "_", "f", "o", "r", "w", "a", "r", "d" >>
    THEN ClientCall("media", "fast_forward", verb_request("fast_forward"))
    ELSE IF str_lower(c) = << "r", "e", "w", "i", "n", "d" >>
    THEN ClientCall("media", "rewind", verb_request("rewind"))
    ELSE IF Len(c) >= Len(cmd.LAUNCH_)                   \* startswith('LAUNCH_')
            /\ SubSeq(c, 1, Len(cmd.LAUNCH_)) = cmd.LAUNCH_
    THEN IF app_package(c) # None
         THEN ClientCall("app", "launch_app", launch_app(app_package(c)))
         ELSE NoCall
    ELSE NoCall

\* Variant: a TokenInvalidError is swallowed like a False.
status_after_execute_swallows(r) == "OK"

\* The status _handle_command returns once _execute_command has returned or
\* raised: the value the client call returned is dropped.
status_after_execute(r) ==
    IF r = "TokenInvalidError" THEN "SERVER_ERROR" ELSE "OK"

\* Variant: toggle sets OFF whatever the state.
state_after_toggle_off(cmd_id, state) ==
    CASE cmd_id = "on" -> "ON"
      [] cmd_id = "off" -> "OFF"
      [] cmd_id = "toggle" -> "OFF"

\* attributes[STATE] after on, off or toggle.
state_after(cmd_id, state) ==
    CASE cmd_id = "on" -> "ON"
      [] cmd_id = "off" -> "OFF"
      [] cmd_id = "toggle" -> IF state = "ON" THEN "OFF" ELSE "ON"

\* The remote entity's handler leaves the client object and the driver alone
\* (the client call it awaits is taken by its result).
RemoteFrame ==
    UNCHANGED << now, last_command_time, session, closedSessions, created,
                 connectors, clientVars, seqVars, concVars, driverVars >>

\* set_client: the driver attaches the client to the entity.
SetClient ==
    /\ handler.pc = "idle"
    /\ ~remote_client
    /\ remote_client' = TRUE
    /\ UNCHANGED << remote_state, remote_api, handler, handled, client_call >>
    /\ RemoteFrame

\* _handle_command(entity, cmd_id, params) runs up to its first await.
HandleCommand(i, c) ==
    /\ handler.pc = "idle"
    /\ handled < MaxHandled
    /\ IF ~remote_client
       THEN /\ handler' = Handler("done", i, c, "none", "none", "SERVER_ERROR")
            /\ UNCHANGED << remote_state, client_call >>
       ELSE IF i = "send_cmd" /\ c # NoCommand
       THEN /\ UNCHANGED remote_state
            /\ LET m == execute_command(c)
               IN IF m = NoCall
                  THEN /\ handler' = Handler("done", i, c, m.called, "none",
                                             status_after_execute("none"))
                       /\ UNCHANGED client_call
                  ELSE /\ handler' = Handler("dispatch", i, c, m.called, "none", "none")
                       /\ client_call' = m
       ELSE IF i \in {"on", "off", "toggle"}
       THEN /\ remote_state' = state_after(i, remote_state)
            /\ handler' = Handler("done", i, c, "none", "none", "OK")
            /\ UNCHANGED client_call
       ELSE /\ handler' = Handler("done", i, c, "none", "none", "NOT_IMPLEMENTED")
            /\ UNCHANGED << remote_state, client_call >>
    /\ UNCHANGED << remote_client, remote_api, handled >>
    /\ RemoteFrame

\* The client's command method returns r or raises TokenInvalidError.
ClientReturns(r) ==
    /\ handler.pc = "dispatch"
    /\ handler' = [handler EXCEPT !.pc = "done", !.result = r,
                                  !.status = status_after_execute(r)]
    /\ UNCHANGED << remote_client, remote_state, remote_api, handled, client_call >>
    /\ RemoteFrame

\* The hub takes the status.
HandlerReturn ==
    /\ handler.pc = "done"
    /\ handler' = IdleHandler
    /\ handled' = handled + 1
    /\ UNCHANGED << remote_client, remote_state, remote_api, client_call >>
    /\ RemoteFrame

\* A caller other than the entity calls verb v of the client.
CallVerb(v) ==
    /\ handler.pc = "idle"
    /\ client_call' = ClientCall("direct", v, verb_request(v))
    /\ UNCHANGED << remote_client, remote_state, remote_api, handler, handled >>
    /\ RemoteFrame

\* A caller calls send_media_command(action, direction) itself.
SendMediaCommand(action, direction) ==
    /\ handler.pc = "idle"
    /\ client_call' = ClientCall("direct", "send_media_command",
                          send_media_command(action, direction, "keyDown"))
    /\ UNCHANGED << remote_client, remote_state, remote_api, handler, handled >>
    /\ RemoteFrame

NextRemote ==
    \/ SetClient
    \/ \E i \in CmdIds, c \in RemoteCommands : HandleCommand(i, c)
    \/ \E r \in dispatch_results : ClientReturns(r)
    \/ HandlerReturn
    \/ \E v \in NavigationVerbs \cup {"play_pause", "pause", "fast_forward", "rewind"} :
           CallVerb(v)
    \/ \E a \in {"play", "pause", "scan"}, d \in {None, "", "forward", "back"} :
           SendMediaCommand(a, d)

SpecRemote == InitConcurrent /\ [][NextRemote]_vars

(***************************************************************************)
(* The driver: entity initialization, the hub's events, the setup handler  *)
(* and shutdown.  Each coroutine is a task of one event loop; it runs      *)
(* without interruption from one await to the next.                        *)
(***************************************************************************)
\* Variant: the lock is taken whoever holds it.
lock_acquirable_ignores_holder(l) == TRUE

\* asyncio.Lock: `async with _initialization_lock` goes on when nobody
\* holds the lock.
lock_acquirable(l) == l = None

\* FireTVRemote.id for the device at host h.
remote_id(h) ==
    IF h = "192.168.1.50" THEN "firetv_192_168_1_50_remote" ELSE "firetv_host_remote"

\* The driver's coroutines use client objects of their own; the sequential
\* and concurrent callers above, and the entity's handler, are not running.
DriverFrame ==
    UNCHANGED << now, last_command_time, session, closedSessions, created,
                 connectors, clientVars, seqVars, concVars, remote_state,
                 handler, handled, client_call >>

Closed(c) == [c EXCEPT !.sessions = close(c.sessions)]
Ensured(c) == [c EXCEPT !.sessions = ensure_session(c.sessions)]

(***************************************************************************)
(* _initialize_entities, entered by task k: the lock is acquired, and the  *)
(* body runs to its first await.  It returns at once when the entities are *)
(* ready or the integration is not configured; otherwise it builds the     *)
(* runtime client, FireTVClient(host, token), and awaits test_connection,  *)
(* which has ensured the client's session.                                 *)
(***************************************************************************)
AcquireLock(k) ==
    /\ main_pc = "running"
    /\ dpc[k] = "lock_wait"
    /\ lock_acquirable(initialization_lock)
    /\ IF entities_ready \/ ~is_configured(driver_config)
       THEN /\ dpc' = [dpc EXCEPT ![k] = "after_init"]
            /\ UNCHANGED << client, initialization_lock >>
       ELSE /\ client' = Ensured(ClientObject(constructor_args("driver", driver_config)))
            /\ initialization_lock' = k
            /\ dpc' = [dpc EXCEPT ![k] = "init_probe"]
    /\ UNCHANGED << disk, driver_config, remote_entity, available_entities,
                    entities_ready, device_state, setup, flow, main_pc, events,
                    remote_client, remote_api, subscription >>
    /\ DriverFrame

(***************************************************************************)
(* test_connection of the runtime client returns r.  False: the device     *)
(* state becomes ERROR, _entities_ready is set False, the body returns.    *)
(* True: the remote entity is built, given the client, made the only       *)
(* available entity, _entities_ready is set True, and the body awaits      *)
(* set_device_state(CONNECTED).                                            *)
(***************************************************************************)
InitProbeDone(k, r) ==
    /\ main_pc = "running"
    /\ dpc[k] = "init_probe"
    /\ r \in test_connection_results(client)
    /\ IF r
       THEN /\ remote_entity' = remote_id(client.fields.host)
            /\ remote_client' = TRUE
            /\ remote_api' = TRUE
            /\ available_entities' = { remote_id(client.fields.host) }
            /\ entities_ready' = TRUE
            /\ dpc' = [dpc EXCEPT ![k] = "init_connected"]
            /\ UNCHANGED << initialization_lock, device_state >>
       ELSE /\ device_state' = "ERROR"
            /\ entities_ready' = FALSE
            /\ initialization_lock' = None
            /\ dpc' = [dpc EXCEPT ![k] = "after_init"]
            /\ UNCHANGED << remote_entity, remote_client, remote_api,
                            available_entities >>
    /\ UNCHANGED << disk, driver_config, client, setup, flow, main_pc, events,
                    subscription >>
    /\ DriverFrame

\* set_device_state(CONNECTED) returns; the body ends and the lock is
\* released.
InitConnectedDone(k) ==
    /\ main_pc = "running"
    /\ dpc[k] = "init_connected"
    /\ device_state' = "CONNECTED"
    /\ initialization_lock' = None
    /\ dpc' = [dpc EXCEPT ![k] = "after_init"]
    /\ UNCHANGED << disk, driver_config, client, remote_entity, available_entities,
                    entities_ready, setup, flow, main_pc, events, remote_client,
                    remote_api, subscription >>
    /\ DriverFrame

(***************************************************************************)
(* What task k does once _initialize_entities has returned (or was not     *)
(* called): the start-up task ends; on_connect sets the device state;      *)
(* on_subscribe_entities pushes the entity state to the hub; the setup     *)
(* handler returns SetupComplete.                                          *)
(***************************************************************************)
\* Variant: a configured integration whose entities are not ready is
\* reported as disconnected.
connect_state_never_error(configured, ready) ==
    IF configured /\ ready THEN "CONNECTED" ELSE "DISCONNECTED"

\* The device state on_connect sets last (driver.py:308-313).
connect_state(configured, ready) ==
    IF configured /\ ready THEN "CONNECTED"
    ELSE IF ~configured THEN "DISCONNECTED"
    ELSE "ERROR"

\* Variant: the state is written whether or not the entity is subscribed.
push_initial_state_unsubscribed(api, configured, id) ==
    IF ~api THEN {} ELSE {id}

\* push_initial_state of the entity with the given id: the ids whose STATE
\* attribute it writes (ON) in api.configured_entities.
push_initial_state(api, configured, id) ==
    IF ~api THEN {}
    ELSE IF id \notin configured THEN {}
    ELSE {id}

AfterInit(k) ==
    /\ main_pc = "running"
    /\ dpc[k] = "after_init"
    /\ CASE k = "startup" ->
              /\ dpc' = [dpc EXCEPT ![k] = "finished"]
              /\ UNCHANGED << device_state, setup, subscription >>
         [] k = "connect" ->
              /\ device_state' = connect_state(is_configured(driver_config),
                                               entities_ready)
              /\ dpc' = [dpc EXCEPT ![k] = "idle"]
              /\ UNCHANGED << setup, subscription >>
         [] k = "subscribe" ->
              /\ subscription' =
                     [subscription EXCEPT !.pushed =
                        UNION { IF remote_entity # None /\ id = remote_entity
                                THEN push_initial_state(remote_api,
                                                        subscription.configured, id)
                                ELSE {} : id \in subscription.entity_ids }]
              /\ dpc' = [dpc EXCEPT ![k] = "idle"]
              /\ UNCHANGED << device_state, setup >>
         [] k = "setup" ->
              /\ setup' = [setup EXCEPT !.outcome = "SetupComplete"]
              /\ dpc' = [dpc EXCEPT ![k] = "setup_done"]
              /\ UNCHANGED << device_state, subscription >>
    /\ UNCHANGED << disk, driver_config, client, remote_entity, available_entities,
                    entities_ready, initialization_lock, flow, main_pc, events,
                    remote_client, remote_api >>
    /\ DriverFrame

\* on_connect: the configuration is reloaded from disk; entities are
\* initialized when it is complete and they are not ready.
OnConnect ==
    /\ main_pc = "running"
    /\ dpc["connect"] = "idle"
    /\ events["connect"] < MaxEvents
    /\ events' = [events EXCEPT !["connect"] = @ + 1]
    /\ driver_config' = load(disk)
    /\ dpc' = [dpc EXCEPT !["connect"] =
                 IF is_configured(load(disk)) /\ ~entities_ready
                 THEN "lock_wait" ELSE "after_init"]
    /\ UNCHANGED << disk, client, remote_entity, available_entities, entities_ready,
                    initialization_lock, device_state, setup, flow, main_pc,
                    remote_client, remote_api, subscription >>
    /\ DriverFrame

\* The entity ids the hub subscribes to: the remote entity's and another.
EntityIds == { remote_id(ConfigHost), "media_player.other" }

\* on_subscribe_entities(ids) while api.configured_entities holds conf (the
\* hub library fills it before the event): entities are initialized when
\* they are not ready and the integration is configured; otherwise, when
\* they are not ready, the handler returns.
OnSubscribe(ids, conf) ==
    /\ main_pc = "running"
    /\ dpc["subscribe"] = "idle"
    /\ events["subscribe"] < MaxEvents
    /\ events' = [events EXCEPT !["subscribe"] = @ + 1]
    /\ subscription' = Subscription(ids, conf, {})
    /\ dpc' = [dpc EXCEPT !["subscribe"] =
                 IF ~entities_ready
                 THEN IF is_configured(driver_config) THEN "lock_wait" ELSE "idle"
                 ELSE "after_init"]
    /\ UNCHANGED << disk, driver_config, client, remote_entity, available_entities,
                    entities_ready, initialization_lock, device_state, setup, flow,
                    main_pc, remote_client, remote_api >>
    /\ DriverFrame

(***************************************************************************)
(* setup_handler(msg) runs to its first await or to its return.            *)
(***************************************************************************)
SetupMessage(m) ==
    /\ main_pc = "running"
    /\ dpc["setup"] = "idle"
    /\ events["setup"] < MaxSetupMessages
    /\ events' = [events EXCEPT !["setup"] = @ + 1]
    /\ CASE m.kind = "DriverSetupRequest" ->
              /\ flow' = NoFlow
              /\ IF m.host # None
                 THEN /\ setup' = SetupCall(m, m.host,
                                            Ensured(ClientObject(constructor_args("setup",
                                                Cfg(m.host, None)))),
                                            "none", "")
                      /\ dpc' = [dpc EXCEPT !["setup"] = "setup_probe"]
                 ELSE /\ setup' = SetupCall(m, None, NoClient, "OTHER", "missing_host")
                      /\ dpc' = [dpc EXCEPT !["setup"] = "setup_done"]
         [] m.kind = "UserDataResponse" ->
              /\ UNCHANGED flow
              /\ LET h == driver_config.host
                 IN IF h \in {None, ""}
                    THEN /\ setup' = SetupCall(m, h, NoClient, "OTHER", "no_host")
                         /\ dpc' = [dpc EXCEPT !["setup"] = "setup_done"]
                    ELSE IF m.pin \in {None, ""}
                    THEN /\ setup' = SetupCall(m, h, NoClient, "OTHER", "no_pin")
                         /\ dpc' = [dpc EXCEPT !["setup"] = "setup_done"]
                    ELSE /\ setup' = SetupCall(m, h,
                                               Ensured(ClientObject(constructor_args("setup",
                                                   Cfg(h, None)))),
                                               "none", "")
                         /\ dpc' = [dpc EXCEPT !["setup"] = "setup_verify"]
         [] m.kind = "UserConfirmationResponse" ->
              /\ UNCHANGED flow
              /\ setup' = SetupCall(m, None, NoClient, "SetupComplete", "unexpected_confirmation")
              /\ dpc' = [dpc EXCEPT !["setup"] = "setup_done"]
         [] OTHER ->
              /\ UNCHANGED flow
              /\ setup' = SetupCall(m, None, NoClient, "OTHER",
                                    IF m.kind = "AbortDriverSetup" THEN "abort" ELSE "unknown")
              /\ dpc' = [dpc EXCEPT !["setup"] = "setup_done"]
    /\ UNCHANGED << disk, driver_config, client, remote_entity, available_entities,
                    entities_ready, initialization_lock, device_state, main_pc,
                    remote_client, remote_api, subscription >>
    /\ DriverFrame

(***************************************************************************)
(* test_connection of the setup handler's client returns r.  False: the    *)
(* client is closed and the handler returns CONNECTION_REFUSED.  True: the *)
(* handler calls request_pin("UC Remote", max_retries=5, retry_delay=3.5); *)
(* a call the signature does not accept raises TypeError, which leaves the *)
(* handler with its client still open.  (The lines after the call,         *)
(* driver.py:164-213, run only when the call is accepted.)                 *)
(***************************************************************************)
SetupProbeDone(r) ==
    /\ main_pc = "running"
    /\ dpc["setup"] = "setup_probe"
    /\ r \in test_connection_results(setup.client)
    /\ IF ~r
       THEN /\ setup' = [setup EXCEPT !.client = Closed(setup.client),
                                      !.outcome = "CONNECTION_REFUSED",
                                      !.note = "unreachable"]
            /\ dpc' = [dpc EXCEPT !["setup"] = "setup_done"]
            /\ UNCHANGED flow
       ELSE /\ flow' = [flow EXCEPT !.reachable_host = setup.host]
            /\ IF call_accepted(request_pin_params, setup_request_pin_call)
               THEN /\ dpc' = [dpc EXCEPT !["setup"] = "setup_pin"]
                    /\ UNCHANGED setup
               ELSE /\ setup' = [setup EXCEPT !.outcome = "TypeError",
                                              !.note = "request_pin"]
                    /\ dpc' = [dpc EXCEPT !["setup"] = "setup_done"]
    /\ UNCHANGED << disk, driver_config, client, remote_entity, available_entities,
                    entities_ready, initialization_lock, device_state, main_pc,
                    events, remote_client, remote_api, subscription >>
    /\ DriverFrame

(***************************************************************************)
(* The pin/verify request of the setup handler's client ends with answer   *)
(* a.  The client is closed.  Without a token the handler returns          *)
(* AUTHORIZATION_ERROR; with one it stores the token, saves the            *)
(* configuration and calls _initialize_entities.                           *)
(***************************************************************************)
SetupVerifyDone(a) ==
    /\ main_pc = "running"
    /\ dpc["setup"] = "setup_verify"
    /\ a \in possible_answers(Req("pin_verify", client_base_url(setup.client), {},
                                  "/v1/FireTV/pin/verify"), VerifyAnswers)
    /\ LET v == verify_pin(a, None)
       IN IF ~token_obtained(v.result)
          THEN /\ setup' = [setup EXCEPT !.client = Closed(setup.client),
                                         !.outcome = "AUTHORIZATION_ERROR",
                                         !.note = "no_token"]
               /\ dpc' = [dpc EXCEPT !["setup"] = "setup_done"]
               /\ UNCHANGED << driver_config, disk, flow >>
          ELSE /\ setup' = [setup EXCEPT !.client = Closed(setup.client)]
               /\ driver_config' = [driver_config EXCEPT !.token = v.result]
               /\ disk' = [driver_config EXCEPT !.token = v.result]      \* config.save()
               /\ flow' = [flow EXCEPT !.token = v.result]
               /\ dpc' = [dpc EXCEPT !["setup"] = "lock_wait"]
    /\ UNCHANGED << client, remote_entity, available_entities, entities_ready,
                    initialization_lock, device_state, main_pc, events,
                    remote_client, remote_api, subscription >>
    /\ DriverFrame

\* The hub takes the handler's outcome; an outcome that ends the setup flow
\* ends it.
SetupReturn ==
    /\ main_pc = "running"
    /\ dpc["setup"] = "setup_done"
    /\ dpc' = [dpc EXCEPT !["setup"] = "idle"]
    /\ setup' = NoSetupCall
    /\ flow' = IF setup.outcome \in FlowEnds THEN NoFlow ELSE flow
    /\ UNCHANGED << disk, driver_config, client, remote_entity, available_entities,
                    entities_ready, initialization_lock, device_state, main_pc,
                    events, remote_client, remote_api, subscription >>
    /\ DriverFrame

(***************************************************************************)
(* main() is cancelled or interrupted: CancelledError is caught and        *)
(* logged, main returns, asyncio.run cancels the tasks that are left and   *)
(* the process exits.                                                      *)
(***************************************************************************)
Shutdown ==
    /\ main_pc = "running"
    /\ main_pc' = "exited"
    /\ UNCHANGED << disk, driver_config, client, remote_entity, available_entities,
                    entities_ready, initialization_lock, device_state, dpc, setup,
                    flow, events, remote_client, remote_api, subscription >>
    /\ DriverFrame

InitDriver ==
    /\ now = 2000
    /\ \E d \in DiskConfigs :
           InitClientWith("setup", Cfg(ConfigHost, ConfigToken), d)

NextDriver ==
    \/ \E k \in DriverTasks : AcquireLock(k)
    \/ \E k \in DriverTasks, r \in BOOLEAN : InitProbeDone(k, r)
    \/ \E k \in DriverTasks : InitConnectedDone(k)
    \/ \E k \in DriverTasks : AfterInit(k)
    \/ OnConnect
    \/ \E ids \in SUBSET EntityIds, conf \in SUBSET EntityIds : OnSubscribe(ids, conf)
    \/ \E m \in SetupMessages : SetupMessage(m)
    \/ \E r \in BOOLEAN : SetupProbeDone(r)
    \/ \E a \in VerifyAnswers \cup {Exc("InvalidURL")} : SetupVerifyDone(a)
    \/ SetupReturn
    \/ Shutdown

SpecDriver == InitDriver /\ [][NextDriver]_vars

(***************************************************************************)
(* Termination of the calls that loop.  Every request of the client has a  *)
(* total timeout (ClientTimeout) and every pause is an asyncio.sleep of a  *)
(* fixed length, so an awaited request or pause always ends and the event  *)
(* loop resumes the call: each continuation of a running call is weakly    *)
(* fair.  Whether a caller calls again is up to the caller.                *)
(***************************************************************************)
NextTermination ==
    \/ \E c \in Commands : Dispatch(c)
    \/ \E a \in WakeAnswers \cup {Exc("InvalidURL")} : WakeDone(a)
    \/ SleepDone
    \/ Recreate
    \/ \E a \in CommandAnswers \cup {Exc("InvalidURL")} : CommandDone(a)
    \/ TestConnection
    \/ \E a \in ProbeAnswers \cup {Exc("InvalidURL")} : ProbeDone(a)
    \/ ProbeSleepDone
    \/ Return

CallsResume ==
    /\ WF_vars(\E a \in WakeAnswers \cup {Exc("InvalidURL")} : WakeDone(a))
    /\ WF_vars(SleepDone)
    /\ WF_vars(Recreate)
    /\ WF_vars(\E a \in CommandAnswers \cup {Exc("InvalidURL")} : CommandDone(a))
    /\ WF_vars(\E a \in ProbeAnswers \cup {Exc("InvalidURL")} : ProbeDone(a))
    /\ WF_vars(ProbeSleepDone)

SpecTermination == Init /\ [][NextTermination]_vars /\ CallsResume

(***************************************************************************)
(* Reading the event log of the running call.                              *)
(***************************************************************************)
IsDispatch == op \in Commands
Events(e) == { i \in 1..Len(log) : log[i].ev = e }
RequestsUpTo(i) == Cardinality({ j \in 1..i : log[j].ev = "request" })
LastEvent == log[Len(log)]

IsStatusAt(i, set) ==
    /\ log[i].ev = "response"
    /\ log[i].ans.kind = "status"
    /\ log[i].ans.status \in set
IsExcAt(i, set) ==
    /\ log[i].ev = "response"
    /\ log[i].ans.kind = "exc"
    /\ log[i].ans.exc \in set
ConnectorErrors == {"ClientConnectorError", "ServerDisconnectedError"}
OtherErrorStatuses == (400..599) \ {401, 403}

\* The events that follow position i are the recovery sequence, as far as
\* the call has got: wake, its outcome, the pause, the recreation, the
\* next request.
RecoveryFollows(i) ==
    /\ Len(log) >= i + 1
    /\ log[i + 1].ev = "wake"
    /\ Len(log) >= i + 2 => log[i + 2].ev = "wake_done"
    /\ Len(log) >= i + 3 => log[i + 3].ev = "sleep"
    /\ Len(log) >= i + 4 => log[i + 4].ev = "recreate"
    /\ Len(log) >= i + 5 => log[i + 5].ev = "request"
    /\ pc = "done" => Len(log) >= i + 5

(***************************************************************************)
(* C1: a command request answered with HTTP 401 or 403 is the last event   *)
(* of its dispatch (no further request, wake or recreation), whatever      *)
(* attempt it was, and the public method raises TokenInvalidError.         *)
(***************************************************************************)
C1_AuthFailureEndsDispatch ==
    IsDispatch =>
        \A i \in 1..Len(log) :
            IsStatusAt(i, {401, 403}) =>
                /\ i = Len(log)
                /\ pc = "done"
                /\ result = "TokenInvalidError"

C1_Witness ==
    /\ IsDispatch /\ pc = "done"
    /\ attempt = 1 /\ attempt < max_retries
    /\ IsStatusAt(Len(log), {401, 403})
    /\ result = "TokenInvalidError"

(***************************************************************************)
(* C2: a connector error on an attempt before the last is followed by a    *)
(* wake, a session recreation and the next request; two consecutive        *)
(* requests of a dispatch have exactly one wake between them; a dispatch   *)
(* that ends on a connector error has made max_retries requests.           *)
(***************************************************************************)
C2_ConnectorErrorRetried ==
    IsDispatch =>
        /\ \A i \in 1..Len(log) :
               (IsExcAt(i, ConnectorErrors) /\ RequestsUpTo(i) < max_retries)
                   => RecoveryFollows(i)
        /\ \A i, j \in Events("request") :
               (i < j /\ \A k \in Events("request") : ~(i < k /\ k < j))
                   => Cardinality({ k \in Events("wake") : i < k /\ k < j }) = 1
        /\ (pc = "done" /\ IsExcAt(Len(log), ConnectorErrors))
               => RequestsUpTo(Len(log)) = max_retries

C2_Witness ==
    /\ IsDispatch /\ pc = "done"
    /\ Cardinality(Events("request")) = 2
    /\ \E i \in 1..Len(log) : IsExcAt(i, ConnectorErrors) /\ RecoveryFollows(i)
    /\ result = "True"

(***************************************************************************)
(* C3: a dispatch issues at most max_retries command requests; when both   *)
(* attempts end in connector errors the public method returns False.       *)
(***************************************************************************)
C3_AtMostMaxRetriesRequests ==
    IsDispatch =>
        /\ Cardinality(Events("request")) <= max_retries
        /\ (pc = "done" /\ Cardinality({ i \in 1..Len(log) : IsExcAt(i, ConnectorErrors) }) = 2)
               => result = "False"

C3_Witness ==
    /\ IsDispatch /\ pc = "done"
    /\ Cardinality({ i \in 1..Len(log) : IsExcAt(i, ConnectorErrors) }) = 2
    /\ Cardinality(Events("request")) = 2
    /\ result = "False"

(***************************************************************************)
(* C4: a command request that times out on an attempt before the last is   *)
(* followed by a wake, a session recreation and the next request, as a     *)
(* connector error is.                                                     *)
(***************************************************************************)
C4_TimeoutRetried ==
    IsDispatch =>
        \A i \in 1..Len(log) :
            (IsExcAt(i, {"TimeoutError"}) /\ RequestsUpTo(i) < max_retries)
                => RecoveryFollows(i)

(***************************************************************************)
(* C5: a dispatch starts with a wake exactly when no command has ever      *)
(* succeeded or the last success is more than wake_timeout ago; otherwise  *)
(* its first event is the command request.                                 *)
(***************************************************************************)
C5_WakeIffIdle ==
    (IsDispatch /\ Len(log) > 0) =>
        IF lct0 = 0 \/ now0 - lct0 > 25 * 60
        THEN log[1].ev = "wake"
        ELSE log[1].ev = "request"

C5_Witness ==
    /\ IsDispatch /\ pc = "request"
    /\ lct0 # 0
    /\ now0 - lct0 = 25 * 60
    /\ log = << Ev("request", NoAnswer) >>

(***************************************************************************)
(* C6: when a dispatch is over, _last_command_time is the time of the      *)
(* answer if the call returned True, and is what it was when the call      *)
(* started if the call returned False or raised.                           *)
(***************************************************************************)
C6_ClockSetExactlyOnSuccess ==
    (IsDispatch /\ pc = "done") =>
        IF result = "True"
        THEN last_command_time = now
        ELSE last_command_time = lct0

(***************************************************************************)
(* C7: a command request answered with an HTTP error status other than     *)
(* 401/403 is the last event of its dispatch, and the public method        *)
(* returns False.                                                          *)
(***************************************************************************)
C7_RejectedCommandNotRetried ==
    IsDispatch =>
        \A i \in 1..Len(log) :
            IsStatusAt(i, OtherErrorStatuses) =>
                /\ i = Len(log)
                /\ pc = "done"
                /\ result = "False"

C7_Witness ==
    /\ IsDispatch /\ pc = "done"
    /\ attempt = 1 /\ attempt < max_retries
    /\ IsStatusAt(Len(log), OtherErrorStatuses)
    /\ result = "False"

(***************************************************************************)
(* C8: whatever the outcome of a wake request, the dispatch goes on to a   *)
(* command request; a dispatch ends only on the answer to a command        *)
(* request and its result is fixed by that answer alone.                   *)
(***************************************************************************)
C8_WakeIsAdvisory ==
    IsDispatch =>
        /\ \A i \in Events("wake_done") :
               /\ Len(log) > i => log[i + 1].ev = "sleep"
               /\ pc = "done" => \E j \in Events("request") : j > i
        /\ pc = "done" =>
               /\ LastEvent.ev = "response"
               /\ result = IF LastEvent.ans.kind = "status"
                           THEN IF LastEvent.ans.status = 200 THEN "True"
                                ELSE IF LastEvent.ans.status \in {401, 403}
                                     THEN "TokenInvalidError"
                                     ELSE "False"
                           ELSE "False"

C8_Witness ==
    /\ IsDispatch /\ pc = "done"
    /\ \E i \in Events("wake_done") : log[i].ans.kind = "exc"
    /\ \E i \in Events("wake_done") :
           log[i].ans.kind = "status" /\ log[i].ans.status \notin {200, 201, 204}
    /\ result = "True"

(***************************************************************************)
(* C9: a public command method ends in True, False or TokenInvalidError;   *)
(* exhausted retries, rejected commands and other exceptions give False.   *)
(***************************************************************************)
C9_ThreeOutcomes ==
    (IsDispatch /\ pc = "done") =>
        /\ result \in {"True", "False", "TokenInvalidError"}
        /\ (\/ IsExcAt(Len(log), {"ClientConnectorError", "ServerDisconnectedError",
                                  "TimeoutError", "ClientPayloadError"})
            \/ IsStatusAt(Len(log), OtherErrorStatuses))
               => result = "False"

C9_Witness ==
    /\ IsDispatch /\ pc = "done"
    /\ attempt = max_retries
    /\ IsExcAt(Len(log), ConnectorErrors)
    /\ result = "False"

(***************************************************************************)
(* C10: request_pin gives its caller the PIN string of the first answer    *)
(* that carries a non-empty PIN, or null; the setup handler's call         *)
(* request_pin("UC Remote", max_retries=5, retry_delay=3.5) yields a PIN   *)
(* or null.                                                                *)
(***************************************************************************)
PinStrings == { a.pin : a \in PinAnswers } \ {""}

C10_RequestPinYieldsPinOrNull ==
    (op \in {"request_pin", "setup_request_pin"} /\ pc = "done") =>
        /\ result \in PinStrings \cup {"None"}
        /\ (Len(log) > 0 /\ LastEvent.ans.pin # "") => result = LastEvent.ans.pin

(***************************************************************************)
(* C11: verify_pin issues exactly one request; on HTTP 200 it returns the  *)
(* description field of the body and stores it as the token; on any other  *)
(* status or a transport error it returns null; the stored token changes   *)
(* only on an HTTP 200 answer.                                             *)
(***************************************************************************)
C11_VerifyPinResult ==
    op = "verify_pin" =>
        /\ Cardinality(Events("verify_request")) = 1
        /\ pc = "done" =>
               LET a == LastEvent.ans
               IN IF a.kind = "status" /\ a.status = 200 /\ a.exc = ""
                  THEN result = a.pin /\ token = a.pin
                  ELSE result = None

C11_VerifyPin ==
    /\ []C11_VerifyPinResult
    /\ [][token' # token =>
              /\ op = "verify_pin" /\ pc' = "done"
              /\ log'[Len(log')].ans.kind = "status"
              /\ log'[Len(log')].ans.status = 200]_vars

C11_Witness ==
    /\ op = "verify_pin" /\ pc = "done"
    /\ LastEvent.ans.status = 200
    /\ result = "tok-new" /\ token = "tok-new"

(***************************************************************************)
(* C12: the first probe of test_connection answered with a status in       *)
(* {200, 400, 401, 403, 404, 405} is the last event of the call (no        *)
(* further request or sleep), and the call returns True.                   *)
(***************************************************************************)
C12_ProbeStopsAtFirstAnswer ==
    op = "test_connection" =>
        \A i \in 1..Len(log) :
            (/\ log[i].ev = "probe_response"
             /\ log[i].ans.kind = "status"
             /\ log[i].ans.status \in {200, 400, 401, 403, 404, 405})
                => /\ i = Len(log)
                   /\ pc = "done"
                   /\ result = "True"

C12_Witness ==
    /\ op = "test_connection" /\ pc = "done"
    /\ attempt = 2
    /\ LastEvent.ans.kind = "status" /\ LastEvent.ans.status = 404
    /\ result = "True"

(***************************************************************************)
(* C13 as stated: test_connection returns False only when all max_retries  *)
(* probes were sent and none of them got any HTTP response.                *)
(***************************************************************************)
C13_FalseOnlyWithoutAnyResponse ==
    (op = "test_connection" /\ pc = "done" /\ result = "False") =>
        /\ Cardinality(Events("probe_request")) = probe_max_retries
        /\ \A i \in Events("probe_response") : log[i].ans.kind # "status"

(***************************************************************************)
(* C13 as amended: test_connection returns False only when all             *)
(* max_retries probes were sent and none of them got a response with a     *)
(* status in {200, 400, 401, 403, 404, 405}.                               *)
(***************************************************************************)
C13_FalseOnlyWithoutReachableStatus ==
    (op = "test_connection" /\ pc = "done" /\ result = "False") =>
        /\ Cardinality(Events("probe_request")) = probe_max_retries
        /\ \A i \in Events("probe_response") :
               ~(/\ log[i].ans.kind = "status"
                 /\ log[i].ans.status \in {200, 400, 401, 403, 404, 405})

C13_Witness ==
    /\ op = "test_connection" /\ pc = "done" /\ result = "False"
    /\ Cardinality(Events("probe_request")) = probe_max_retries
    /\ \E i \in Events("probe_response") : log[i].ans.kind = "status"
    /\ \E i \in Events("probe_response") : log[i].ans.kind = "exc"

(***************************************************************************)
(* C14: every command request of the client the driver builds from the     *)
(* saved configuration carries X-Client-Token with the configured token    *)
(* and goes to the configured host on port 8080.                           *)
(***************************************************************************)
C14_CommandRequestsCarryToken ==
    (built = "driver" /\ request.kind \in Commands) =>
        /\ << "X-Client-Token", config.token >> \in request.headers
        /\ request.url.host = config.host
        /\ request.url.port = "8080"

(***************************************************************************)
(* C15: a client for localhost, 127.0.0.1 or 0.0.0.0 (in any letter case)  *)
(* uses http and plain connectors, any other client uses https and         *)
(* connectors with check_hostname off and verify_mode CERT_NONE, for every *)
(* session it ever creates.                                                *)
(***************************************************************************)
C15_TransportFixedByHost ==
    LET loopback == host \in {"localhost", "LocalHost", "127.0.0.1", "0.0.0.0"}
    IN /\ base_url.scheme = IF loopback THEN "http" ELSE "https"
       /\ \A i \in 1..created :
              IF loopback
              THEN ~connectors[i].ssl
              ELSE /\ connectors[i].ssl
                   /\ ~connectors[i].check_hostname
                   /\ connectors[i].verify_mode = "CERT_NONE"
       /\ request.kind \in Commands \cup {"pin_verify"} =>
              request.url.scheme = IF loopback THEN "http" ELSE "https"

C15_Witness ==
    /\ host = "LocalHost"
    /\ created >= 2
    /\ \E i \in 1..Len(sessOps) : sessOps[i].op = "recreate"
    /\ ~connectors[created].ssl

(***************************************************************************)
(* C16: _ensure_session leaves a live session as it is and creates         *)
(* nothing; with no session or a closed one it creates exactly one new     *)
(* session; afterwards self.session is live, and ensuring again changes    *)
(* nothing.                                                                *)
(***************************************************************************)
IsLive(ss) == ss.session # 0 /\ ss.session \notin ss.closed

C16_EnsureSessionIdempotent ==
    \A i \in 1..Len(sessOps) :
        sessOps[i].op = "ensure" =>
            LET b == sessOps[i].before
                a == sessOps[i].after
            IN /\ IsLive(b) => a = b
               /\ ~IsLive(b) => /\ a.created = b.created + 1
                                /\ a.session = a.created
                                /\ a.closed = b.closed
               /\ IsLive(a)
               /\ ensure_session(a) = a

C16_Witness ==
    /\ Len(sessOps) = 1
    /\ sessOps[1].op = "ensure"
    /\ sessOps[1].before.session \in sessOps[1].before.closed
    /\ IsLive(CurrentSessions)
    /\ pc \in {"wake", "request", "verify_request"}

(***************************************************************************)
(* C17: close() in any state (no session, live, closed) leaves no live     *)
(* session and creates none, a second close changes nothing, and a         *)
(* request issued afterwards runs on a live session.                       *)
(***************************************************************************)
C17_CloseIsSafe ==
    /\ \A i \in 1..Len(sessOps) :
           sessOps[i].op = "close" =>
               LET b == sessOps[i].before
                   a == sessOps[i].after
               IN /\ ~IsLive(a)
                  /\ a.session = b.session
                  /\ a.created = b.created
                  /\ ~IsLive(b) => a = b
    /\ pc \in {"wake", "request", "verify_request"} => IsLive(CurrentSessions)

C17_Witness ==
    /\ Len(sessOps) = 1
    /\ sessOps[1].op = "close"
    /\ sessOps[1].before.session \in sessOps[1].before.closed
    /\ sessOps[1].before.created >= 2

(***************************************************************************)
(* C18: on return from _recreate_session self.session is live and is not   *)
(* the session present at entry, and the session present at entry is       *)
(* closed.                                                                 *)
(***************************************************************************)
C18_RecreateReplacesSession ==
    \A i \in 1..Len(sessOps) :
        sessOps[i].op = "recreate" =>
            LET b == sessOps[i].before
                a == sessOps[i].after
            IN /\ IsLive(a)
               /\ a.session # b.session
               /\ a.session = b.created + 1
               /\ b.session # 0 => b.session \in a.closed

C18_Witness ==
    /\ pc = "request"
    /\ sessOps[1].op = "recreate"
    /\ IsLive(sessOps[1].before)
    /\ session = sessOps[1].after.session
    /\ sessOps[1].before.session \in closedSessions

(***************************************************************************)
(* C19: at most one live session exists: every session the client ever     *)
(* created, other than the one self.session refers to, is closed.          *)
(***************************************************************************)
C19_NoOrphanedLiveSession ==
    \A n \in 1..created : n # session => n \in closedSessions

(***************************************************************************)
(* C20: no task runs _recreate_session while another task is inside it,    *)
(* and no session is closed while the request of a task is in flight on    *)
(* it.                                                                     *)
(***************************************************************************)
C20_RecreationIsExclusive ==
    /\ ~recreateOverlap
    /\ \A t \in Tasks :
           tpc[t] \in {"wake", "request"} => tsession[t] \notin closedSessions

(***************************************************************************)
(* C25: a dispatch that takes the idle wake step runs wake request, pause, *)
(* session recreation, first command request in that order; the command    *)
(* request goes out on a session constructed by the recreation, and every  *)
(* earlier session, the one that carried the wake included, is closed by   *)
(* then.                                                                   *)
(***************************************************************************)
IdleWakeOrder == << "wake", "wake_done", "sleep", "recreate", "request" >>

C25_WakeThenFreshSession ==
    (IsDispatch /\ Len(log) >= 1 /\ log[1].ev = "wake") =>
        /\ \A i \in 1..Len(log) : i <= 5 => log[i].ev = IdleWakeOrder[i]
        /\ (pc = "request" /\ attempt = 1) =>
               /\ Len(log) = 5
               /\ sessOps[1].op = "recreate"
               /\ sessOps[1].before.session # 0
               /\ session # sessOps[1].before.session
               /\ session = sessOps[1].before.created + 1
               /\ session \notin closedSessions
               /\ \A n \in 1..created : n # session => n \in closedSessions

C25_Witness ==
    /\ IsDispatch /\ pc = "request" /\ attempt = 1
    /\ log[1].ev = "wake"
    /\ calls = 1 /\ lct0 # 0
    /\ sessOps[1].before.session = 2 /\ session = 3
    /\ closedSessions = {1, 2}

(***************************************************************************)
(* C26: requests to pin/display, pin/verify, the wake endpoint and the     *)
(* probe carry no X-Client-Token header, whether or not the client holds a *)
(* token; the header is only on navigation, media and app requests of a    *)
(* client that holds a token, with that token as its value; X-Api-Key and  *)
(* the fixed User-Agent are on every pairing and command request.          *)
(***************************************************************************)
HeaderNames(req) == { h[1] : h \in req.headers }
UnauthenticatedKinds == {"pin_display", "pin_verify", "wake", "probe"}

C26_TokenOnlyOnCommands ==
    /\ request.kind \in UnauthenticatedKinds =>
           "X-Client-Token" \notin HeaderNames(request)
    /\ "X-Client-Token" \in HeaderNames(request) =>
           /\ request.kind \in Commands
           /\ token \notin {None, ""}
           /\ << "X-Client-Token", token >> \in request.headers
    /\ request.kind \in Commands \cup {"pin_display", "pin_verify"} =>
           /\ << "X-Api-Key", "0987654321" >> \in request.headers
           /\ << "User-Agent", "okhttp/4.10.0" >> \in request.headers

C26_Witness ==
    /\ token = "tok-new"
    /\ op = "request_pin" /\ pc = "pin_request"
    /\ request.kind = "pin_display"
    /\ "X-Client-Token" \notin HeaderNames(request)
    /\ << "X-Api-Key", "0987654321" >> \in request.headers

(***************************************************************************)
(* C27: every call of a public command method ends, with True, False or    *)
(* TokenInvalidError, after at most max_retries command requests and at    *)
(* most max_retries wake requests.                                         *)
(***************************************************************************)
C27_DispatchBounded ==
    IsDispatch =>
        /\ Cardinality(Events("request")) <= max_retries
        /\ Cardinality(Events("wake")) <= max_retries
        /\ pc = "done" => result \in {"True", "False", "TokenInvalidError"}

C27_DispatchTerminates ==
    /\ []C27_DispatchBounded
    /\ (IsDispatch /\ pc # "done") ~> (IsDispatch /\ pc = "done")

C27_Witness ==
    /\ IsDispatch /\ pc = "done"
    /\ Cardinality(Events("request")) = max_retries
    /\ Cardinality(Events("wake")) = max_retries
    /\ result = "False"

(***************************************************************************)
(* C28: test_connection ends after at most max_retries probes and at most  *)
(* max_retries - 1 pauses; a pause only comes between two probes, never    *)
(* after the last one; when all max_retries probes fail it returns False.  *)
(***************************************************************************)
ProbeFailedAt(i) ==
    /\ log[i].ev = "probe_response"
    /\ ~(log[i].ans.kind = "status"
         /\ log[i].ans.status \in {200, 400, 401, 403, 404, 405})

C28_ProbeBounded ==
    op = "test_connection" =>
        /\ Cardinality(Events("probe_request")) <= probe_max_retries
        /\ Cardinality(Events("probe_sleep")) <= probe_max_retries - 1
        /\ \A i \in Events("probe_sleep") :
               /\ i > 1 /\ log[i - 1].ev = "probe_response"
               /\ i < Len(log) /\ log[i + 1].ev = "probe_request"
        /\ pc = "done" =>
               /\ LastEvent.ev = "probe_response"
               /\ (Cardinality({ i \in 1..Len(log) : ProbeFailedAt(i) })
                      = probe_max_retries) => result = "False"

C28_ProbeTerminates ==
    /\ []C28_ProbeBounded
    /\ (op = "test_connection" /\ pc # "done")
           ~> (op = "test_connection" /\ pc = "done")

C28_Witness ==
    /\ op = "test_connection" /\ pc = "done"
    /\ Cardinality(Events("probe_request")) = probe_max_retries
    /\ Cardinality(Events("probe_sleep")) = probe_max_retries - 1
    /\ Cardinality({ i \in 1..Len(log) : ProbeFailedAt(i) }) = probe_max_retries
    /\ result = "False"

(***************************************************************************)
(* C24: _handle_command returns OK for a send_cmd only when the command    *)
(* was dispatched and accepted: not when the client's method returned      *)
(* False, and not when the command name led to no client call.             *)
(***************************************************************************)
C24_OkOnlyForAcceptedCommand ==
    (handler.pc = "done" /\ handler.cmd_id = "send_cmd" /\ handler.command # NoCommand
        /\ remote_client) =>
        ((handler.called = "none" \/ handler.result = "False")
            => handler.status # "OK")

(***************************************************************************)
(* C21: once main has been cancelled or interrupted and the driver has     *)
(* exited, the runtime client has no live session.                         *)
(***************************************************************************)
C21_SessionClosedAtExit ==
    main_pc = "exited" => (~client.built \/ ~IsLive(client.sessions))

(***************************************************************************)
(* C22: the setup handler gives each failure its own outcome.  A           *)
(* DriverSetupRequest without a host gives OTHER; with a host whose device *)
(* is unreachable, CONNECTION_REFUSED; with a reachable device, OTHER when *)
(* no PIN was obtained and RequestUserInput when one was.  A               *)
(* UserDataResponse without host or PIN gives OTHER, one whose PIN         *)
(* verification returned no token gives AUTHORIZATION_ERROR.  An abort or  *)
(* an unknown message gives OTHER.                                         *)
(***************************************************************************)
C22_SetupOutcomePerFailure ==
    dpc["setup"] = "setup_done" =>
        CASE setup.msg.kind = "DriverSetupRequest" ->
                 IF setup.msg.host = None THEN setup.outcome = "OTHER"
                 ELSE IF flow.reachable_host = None
                      THEN setup.outcome = "CONNECTION_REFUSED"
                 ELSE IF flow.pin_host = None THEN setup.outcome = "OTHER"
                 ELSE setup.outcome = "RequestUserInput"
          [] setup.msg.kind = "UserDataResponse" ->
                 IF setup.host = None \/ setup.msg.pin = None
                 THEN setup.outcome = "OTHER"
                 ELSE IF flow.token = None THEN setup.outcome = "AUTHORIZATION_ERROR"
                 ELSE setup.outcome = "SetupComplete"
          [] setup.msg.kind \in {"AbortDriverSetup", "Unknown"} ->
                 setup.outcome = "OTHER"
          [] OTHER -> TRUE

(***************************************************************************)
(* C23: the pin/verify request is sent only when request_pin succeeded for *)
(* the same host earlier in the setup flow in progress, and SetupComplete  *)
(* is returned only when verify_pin obtained a token in that flow.         *)
(***************************************************************************)
C23_PairingOrder ==
    /\ dpc["setup"] = "setup_verify" => flow.pin_host = setup.host
    /\ (dpc["setup"] = "setup_done" /\ setup.outcome = "SetupComplete")
           => flow.token # None

InBody == { k \in DriverTasks : dpc[k] \in {"init_probe", "init_connected"} }

C30_OneBodyAndReadyEntity ==
    /\ Cardinality(InBody) <= 1
    /\ InBody # {} => initialization_lock \in InBody
    /\ entities_ready =>
           /\ remote_entity # None
           /\ remote_client
           /\ available_entities = { remote_entity }

C31_ClientMatchesSavedPairing ==
    (dpc["setup"] = "setup_done" /\ setup.outcome = "SetupComplete"
        /\ flow.token # None)
        => /\ remote_client
           /\ client.built
           /\ client.fields.host = disk.host
           /\ client.fields.token = disk.token

(***************************************************************************)
(* C32: the configuration file changes only in the step in which a         *)
(* UserDataResponse's verify_pin has returned a token; it then holds that  *)
(* token together with the host the handler read from the configuration,   *)
(* and the handler goes on to SetupComplete.  No other step of the setup   *)
(* handler, and no other task, writes the file.                            *)
(***************************************************************************)
C32_TokenSavedOnlyByVerifiedPin ==
    [][disk' # disk =>
          /\ dpc["setup"] = "setup_verify"
          /\ setup.msg.kind = "UserDataResponse"
          /\ flow'.token \notin {None, ""}
          /\ disk' = Cfg(setup.host, flow'.token)
          /\ dpc'["setup"] = "lock_wait"]_vars

C32_Witness ==
    /\ dpc["setup"] = "setup_done"
    /\ setup.outcome = "SetupComplete"
    /\ disk = Cfg(ConfigHost, "tok-new")

(***************************************************************************)
(* C33: the device state on_connect sets when it ends is CONNECTED exactly *)
(* when the configuration has host and token and the entities are ready,   *)
(* DISCONNECTED exactly when host or token is missing, ERROR exactly when  *)
(* the integration is configured and the entities are not ready.  No task  *)
(* probes the device, and on_connect does not enter entity                 *)
(* initialization, while the configuration lacks host or token.            *)
(***************************************************************************)
HasHostAndToken(c) == c.host \notin {None, ""} /\ c.token \notin {None, ""}

C33_ConnectEnds ==
    (dpc["connect"] = "after_init" /\ dpc'["connect"] = "idle") =>
        /\ device_state' = "CONNECTED"
              <=> (HasHostAndToken(driver_config) /\ entities_ready)
        /\ device_state' = "DISCONNECTED" <=> ~HasHostAndToken(driver_config)
        /\ device_state' = "ERROR"
              <=> (HasHostAndToken(driver_config) /\ ~entities_ready)

C33_UnconfiguredStaysOut ==
    ~HasHostAndToken(driver_config) =>
        /\ dpc["connect"] \notin {"lock_wait", "init_probe", "init_connected"}
        /\ \A k \in DriverTasks : dpc[k] # "init_probe"

C33_ConnectStateFollowsConfig ==
    /\ []C33_UnconfiguredStaysOut
    /\ [][C33_ConnectEnds]_vars

C33_Witness ==
    /\ events["connect"] = 1
    /\ dpc["connect"] = "idle"
    /\ device_state = "ERROR"
    /\ HasHostAndToken(driver_config)
    /\ ~entities_ready

(***************************************************************************)
(* C38: when the setup handler returns or raises, the client it built for  *)
(* the probe and the PIN request, or for the verification, has no live     *)
(* session.                                                                *)
(***************************************************************************)
C38_TemporaryClientClosed ==
    dpc["setup"] = "setup_done" => ~IsLive(setup.client.sessions)

(***************************************************************************)
(* C39: on_subscribe_entities pushes state only for a subscribed id that   *)
(* is the remote entity's id, and push_initial_state writes only when the  *)
(* entity has the API and its id is in configured_entities.  A             *)
(* subscription that arrives while the entities are not ready and the      *)
(* integration is not configured returns at once: it changes nothing and   *)
(* starts no entity initialization.                                        *)
(***************************************************************************)
C39_PushedIds ==
    /\ subscription.pushed \subseteq
           (subscription.entity_ids \cap subscription.configured)
    /\ \A id \in subscription.pushed : id = remote_entity /\ remote_api

C39_UnconfiguredSubscription ==
    (events'["subscribe"] # events["subscribe"] /\ ~entities_ready
        /\ ~is_configured(driver_config))
        => /\ dpc'["subscribe"] = "idle"
           /\ subscription'.pushed = {}
           /\ UNCHANGED << disk, driver_config, client, remote_entity,
                           available_entities, entities_ready, initialization_lock,
                           device_state, remote_client, remote_api, remote_state >>

C39_PushOnlyForSubscribedRemote ==
    /\ []C39_PushedIds
    /\ [][C39_UnconfiguredSubscription]_vars

C39_Witness ==
    /\ dpc["subscribe"] = "idle"
    /\ subscription.entity_ids = EntityIds
    /\ subscription.configured = EntityIds
    /\ subscription.pushed = { remote_entity }

(***************************************************************************)
(* C34: the status _handle_command returns.  SERVER_ERROR when no client   *)
(* is attached, whatever the cmd_id, with the entity state and the client  *)
(* untouched; SERVER_ERROR when the command raised (TokenInvalidError);    *)
(* NOT_IMPLEMENTED for a cmd_id that is not on, off, toggle or a send_cmd  *)
(* with a command; OK in every other case.  The handler ends with one of   *)
(* these three codes.                                                      *)
(***************************************************************************)
C34_Status ==
    handler.pc = "done" =>
        /\ handler.status \in {"OK", "SERVER_ERROR", "NOT_IMPLEMENTED"}
        /\ handler.status =
              IF ~remote_client THEN "SERVER_ERROR"
              ELSE IF handler.cmd_id = "send_cmd" /\ handler.command # NoCommand
                   THEN IF handler.result = "TokenInvalidError"
                        THEN "SERVER_ERROR" ELSE "OK"
              ELSE IF handler.cmd_id \in {"on", "off", "toggle"} THEN "OK"
              ELSE "NOT_IMPLEMENTED"

C34_NoClientNoEffect ==
    (handler.pc = "idle" /\ handler'.pc # "idle" /\ ~remote_client)
        => /\ handler'.pc = "done"
           /\ UNCHANGED << remote_state, client_call >>

C34_StatusOfHandleCommand ==
    /\ []C34_Status
    /\ [][C34_NoClientNoEffect]_vars

C34_Witness ==
    /\ handler.pc = "done"
    /\ remote_client
    /\ handler.result = "TokenInvalidError"
    /\ handler.status = "SERVER_ERROR"

(***************************************************************************)
(* C35: the power attribute starts at ON; 'on' sets it ON, 'off' sets it   *)
(* OFF, 'toggle' flips it, send_cmd leaves it alone, and none of on, off   *)
(* and toggle calls the client.                                            *)
(***************************************************************************)
HandlingStarts == handler.pc = "idle" /\ handler'.pc # "idle"

C35_PowerStep ==
    HandlingStarts =>
        /\ handler'.cmd_id = "on" => remote_state' = "ON"
        /\ handler'.cmd_id = "off" => remote_state' = "OFF"
        /\ handler'.cmd_id = "toggle" => remote_state' # remote_state
        /\ handler'.cmd_id = "send_cmd" => remote_state' = remote_state
        /\ handler'.cmd_id \in {"on", "off", "toggle"}
               => (client_call' = client_call /\ handler'.called = "none")

C35_PowerStateMachine ==
    /\ remote_state = "ON"
    /\ [][C35_PowerStep]_vars

(***************************************************************************)
(* C35, amended: the power attribute starts at ON; while a client is       *)
(* attached, 'on' sets it ON, 'off' sets it OFF and 'toggle' flips it,     *)
(* without calling the client; nothing else changes it: not send_cmd, not  *)
(* the return of a client call, and no command handled while no client is  *)
(* attached.                                                               *)
(***************************************************************************)
C35_PowerStepWithClient ==
    IF HandlingStarts /\ remote_client /\ handler'.cmd_id \in {"on", "off", "toggle"}
    THEN /\ handler'.cmd_id = "on" => remote_state' = "ON"
         /\ handler'.cmd_id = "off" => remote_state' = "OFF"
         /\ handler'.cmd_id = "toggle" => remote_state' # remote_state
         /\ client_call' = client_call
         /\ handler'.called = "none"
    ELSE remote_state' = remote_state

C35_PowerStateMachineWithClient ==
    /\ remote_state = "ON"
    /\ remote_state \in {"ON", "OFF"}
    /\ [][C35_PowerStepWithClient /\ remote_state' \in {"ON", "OFF"}]_vars

C35_Witness ==
    /\ handled = 1
    /\ handler.pc = "done"
    /\ handler.cmd_id = "toggle"
    /\ handler.status = "OK"
    /\ remote_state = "ON"

(***************************************************************************)
(* C36: every command of the button mapping and of the UI pages is one of  *)
(* the entity's simple_commands, and _execute_command resolves every such  *)
(* command to one call of the client: a navigation verb, a media verb, or  *)
(* launch_app with the package of exactly one application.                 *)
(***************************************************************************)
C36_VocabularyClosed ==
    (handler.pc # "idle" /\ remote_client /\ handler.cmd_id = "send_cmd"
        /\ handler.command \in
              (simple_commands \cup button_mapping_commands \cup ui_page_commands))
        => /\ handler.command \in simple_commands
           /\ handler.called \in {"navigation", "media", "app"}
           /\ client_call.called = handler.called
           /\ handler.called = "app" =>
                 Cardinality({ i \in 1..Len(FIRE_TV_APPS) :
                                 FIRE_TV_APPS[i].package = client_call.request.action }) = 1

(***************************************************************************)
(* C37: a navigation verb posts the action of its own name and no body; a  *)
(* media command carries a body, made of the direction and the nested      *)
(* keyAction object, exactly when its action is 'scan' and a direction is  *)
(* given; fast_forward is scan/forward, rewind is scan/back, play_pause is *)
(* play and pause is pause, the last two without a body.                   *)
(***************************************************************************)
C37_VerbMapping ==
    LET r == client_call.request
    IN /\ client_call.verb \in NavigationVerbs =>
             /\ r.method = "send_navigation_command"
             /\ r.action = client_call.verb
             /\ r.path = "/v1/FireTV?action=" \o client_call.verb
             /\ ~r.has_body
       /\ r.method = "send_media_command" =>
             /\ r.has_body <=> (r.action = "scan" /\ r.direction \notin {None, ""})
             /\ r.has_body =>
                   r.payload = [direction |-> r.direction,
                                keyAction |-> [keyActionType |-> r.key_action_type]]
             /\ ~r.has_body => r.payload = << >>
             /\ r.path = "/v1/media?action=" \o r.action
       /\ client_call.verb = "fast_forward" =>
             (r.method = "send_media_command" /\ r.action = "scan"
                 /\ r.direction = "forward")
       /\ client_call.verb = "rewind" =>
             (r.method = "send_media_command" /\ r.action = "scan"
                 /\ r.direction = "back")
       /\ client_call.verb = "play_pause" =>
             (r.method = "send_media_command" /\ r.action = "play" /\ ~r.has_body)
       /\ client_call.verb = "pause" =>
             (r.method = "send_media_command" /\ r.action = "pause" /\ ~r.has_body)

C37_Witness ==
    /\ handler.pc = "dispatch"
    /\ client_call.called = "media"
    /\ client_call.verb = "rewind"
    /\ client_call.request.has_body
    /\ client_call.request.payload.direction = "back"

====
